---- MODULE Spec2Model ----
(***************************************************************************)
(* Trajectory analysis and navigation engine of the DBS path-selection     *)
(* window (src/src/gui/pathSelection.py, class PathSelection), and the     *)
(* wrapper of the segmentation module (src/src/segmentation.py).           *)
(*                                                                         *)
(* Numbers.  Positions are fixed-point voxel coordinates with PosScale     *)
(* units per voxel; distances along the profile are fixed-point            *)
(* millimetres with PosScale units per millimetre; margins are in          *)
(* thousandths of a millimetre.  The candidate trajectories are straight   *)
(* lines (direction parallel to target - entry) whose direction has an     *)
(* integer length, and the voxel spacing has an integer length, so that    *)
(* every square root the code takes is exact in these units.               *)
(***************************************************************************)
EXTENDS Integers, Sequences, FiniteSets, TLC

VARIABLES
  all_trajectories,           \* self.all_trajectories (input, per target)
  sorted_trajectories,        \* self.sorted_trajectories
  target_i,                   \* self.target_i
  trajectory_i,               \* self.trajectory_i
  checkpoint_i,               \* self.checkpoint_i
  data,                       \* self.data / self.shape: name of the active scan
  current_trajectory,         \* self.current_trajectory (direction, entry, target)
  trajectory_checkpoints,     \* self.trajectory_checkpoints   (100 x 3)
  trajectory_dist2targetList, \* self.trajectory_dist2targetList (100)
  trajectory_distances,       \* self.trajectory_distances     (100)
  vectors,                    \* self.vectors
  aspect_x,                   \* self.aspect_x
  aspect_y,                   \* self.aspect_y
  slice_shape,                \* self.slice_shape
  trajectory_slices,          \* self.trajectory_slices
  current_pos,                \* self.current_pos
  current_slice,              \* self.current_slice
  v_line,                     \* self.subplots.v_line: value and bounds
  margin,                     \* self.margin
  margin_pix,                 \* self.margin_pix
  h_line,                     \* self.subplots.h_line value
  marginSetting,              \* text of self.marginSetting
  targetList,                 \* current row of self.targetList
  trajectoryList,             \* current row of self.trajectoryList
  scanList,                   \* current item of self.scanList
  pc,                         \* position inside the running handler
  last_op,                    \* the handler that ran last, its input and its branch
  volData,                    \* what convert_volume_to_opengl returned or raised
  paths,                      \* segmentation(): the keys of the dict paths
  settings,                   \* segmentation(): the dict settings
  verbose,                    \* segmentation(): the argument verbose
  seg_pc,                     \* position inside segmentation()
  calls,                      \* the steps segmentation() has called, in order
  logs                        \* what log_dict has written, in order

vars == <<all_trajectories, sorted_trajectories, target_i, trajectory_i,
          checkpoint_i, data, current_trajectory, trajectory_checkpoints,
          trajectory_dist2targetList, trajectory_distances, vectors,
          aspect_x, aspect_y, slice_shape, trajectory_slices, current_pos, current_slice, v_line, margin,
          margin_pix, h_line, marginSetting, targetList, trajectoryList,
          scanList, pc, last_op, volData, paths, settings, verbose, seg_pc,
          calls, logs>>

(***************************************************************************)
(* Bounds of the model and constants of the program.                       *)
(***************************************************************************)
NumTargets == 2
NumCands == 3
NumQueries == 3

NumCheckpoints == 100
EntryBackoff == 10
TargetBackoff == 3
MinDiffInit == 100
InitMargin == 3

PosScale == 99 * 5
MarginScale == 10 * 100

(***************************************************************************)
(* Arithmetic.                                                             *)
(***************************************************************************)
Abs(a) == IF a < 0 THEN -a ELSE a

Sign(a) == IF a < 0 THEN -1 ELSE IF a > 0 THEN 1 ELSE 0

Max2(a, b) == IF a >= b THEN a ELSE b

Max3(s) == Max2(s[1], Max2(s[2], s[3]))

\* floor of the square root, by bisection (np.sqrt on an exact square)
RECURSIVE SqrtBetween(_, _, _)
SqrtBetween(a, lo, hi) ==
  IF lo >= hi THEN lo
  ELSE LET mid == (lo + hi + 1) \div 2
       IN IF mid * mid <= a THEN SqrtBetween(a, mid, hi)
                            ELSE SqrtBetween(a, lo, mid - 1)

ISqrt(a) == SqrtBetween(a, 0, 46340)

VAdd(a, b) == <<a[1] + b[1], a[2] + b[2], a[3] + b[3]>>

VSub(a, b) == <<a[1] - b[1], a[2] - b[2], a[3] - b[3]>>

VScale(k, a) == <<k * a[1], k * a[2], k * a[3]>>

VDiv(a, k) == <<a[1] \div k, a[2] \div k, a[3] \div k>>

Dot(a, b) == a[1] * b[1] + a[2] * b[2] + a[3] * b[3]

Cross(a, b) == <<a[2] * b[3] - a[3] * b[2],
                 a[3] * b[1] - a[1] * b[3],
                 a[1] * b[2] - a[2] * b[1]>>

Zero3 == <<0, 0, 0>>

\* np.round followed by int(): round half to even, on a fixed-point value
RoundHalfEven(a) ==
  LET q == a \div PosScale
      r == a - q * PosScale
  IN IF 2 * r < PosScale THEN q
     ELSE IF 2 * r > PosScale THEN q + 1
     ELSE IF q % 2 = 0 THEN q ELSE q + 1

RoundVec(p) == <<RoundHalfEven(p[1]), RoundHalfEven(p[2]), RoundHalfEven(p[3])>>

\* seq[i] of a Python sequence: a negative index counts from the end
PyIndexOk(len, i) == -len <= i /\ i < len

PyIndex(seq, i) == IF i >= 0 THEN seq[i + 1] ELSE seq[Len(seq) + i + 1]

(***************************************************************************)
(* The loaded data: the scans, the voxel spacing, the distance map and     *)
(* the candidate trajectories handed to the window.                        *)
(***************************************************************************)
\* self.scans: the three scans initData always loads, in dict order
ScanNames == <<"T1w", "T1w_gado", "CT">>

\* np.shape of a scan; the scans are co-registered on one grid
ScanShape(name) == <<24, 32, 40>>

\* self.vox_dims: the diagonal of the affine of T1w
vox_dims == <<1, 2, 2>>

\* np.shape(self.distance_map)
MapShape == ScanShape("T1w")

\* self.distance_map[ix]: distance (thousandths of a mm) to the nearest
\* critical structure, here a vessel running along the first axis
DistanceMapAt(ix) == 250 * (Abs(ix[2] - 20) + Abs(ix[3] - 30))

Traj(d, e, t, m) == [direction |-> d, entry |-> e, target |-> t, margin |-> m]

\* well-formed candidates per target, as the planning step hands them over
Catalogue ==
  << << Traj(<<0, 0, 1>>, <<12, 16, 12>>, <<12, 16, 27>>, 2500),
        Traj(<<0, 3, 4>>, <<12, 6, 14>>, <<12, 12, 22>>, 4100),
        Traj(<<3, 0, 4>>, <<6, 16, 14>>, <<15, 16, 26>>, 1200),
        Traj(<<0, 0, 1>>, <<14, 18, 11>>, <<14, 18, 21>>, 4100) >>,
     << Traj(<<0, 3, 4>>, <<12, 4, 14>>, <<12, 13, 26>>, 1800),
        Traj(<<0, 0, 5>>, <<10, 20, 12>>, <<10, 20, 32>>, 5200),
        Traj(<<0, 0, 1>>, <<14, 20, 10>>, <<14, 20, 25>>, 900),
        Traj(<<3, 0, 4>>, <<7, 20, 12>>, <<13, 20, 20>>, 5200) >>,
     << Traj(<<3, 0, 4>>, <<8, 10, 12>>, <<17, 10, 24>>, 3300),
        Traj(<<0, 0, 1>>, <<8, 10, 14>>, <<8, 10, 24>>, 3300),
        Traj(<<0, 3, 4>>, <<8, 12, 12>>, <<8, 21, 24>>, 700),
        Traj(<<0, 0, 5>>, <<9, 11, 13>>, <<9, 11, 28>>, 6100) >> >>

\* malformed candidates: one whose checkpoints leave the volume, one whose
\* direction has length zero
LeavesVolume == Traj(<<0, 0, 1>>, <<12, 16, 26>>, <<12, 16, 41>>, 1000)

ZeroDirection == Traj(<<0, 0, 0>>, <<10, 20, 12>>, <<10, 20, 27>>, 800)

\* the all_trajectories argument of PathSelection: well-formed candidates
InputTrajectories ==
  [t \in 1..NumTargets |-> [c \in 1..NumCands |-> Catalogue[t][c]]]

\* the same with a malformed candidate appended to the first two targets
MalformedTrajectories ==
  [t \in 1..NumTargets |->
     IF t = 1 THEN Append(InputTrajectories[t], LeavesVolume)
     ELSE IF t = 2 THEN Append(InputTrajectories[t], ZeroDirection)
     ELSE InputTrajectories[t]]

\* candidates for sampling on their own: directions along and across the
\* axes, the zero direction among them, from entries near the middle and
\* near the border of the volume, the target on the line from the entry
SampleDirections ==
  {<<0, 0, 1>>, <<0, 0, 5>>, <<0, 0, -1>>, <<0, 3, 4>>, <<3, 0, 4>>,
   <<0, 4, 3>>, <<4, 0, 3>>, <<1, 0, 0>>, <<0, 1, 0>>, <<3, 4, 0>>,
   <<0, 0, 0>>}

SampleEntries == {<<12, 16, 14>>, <<12, 6, 14>>, <<12, 16, 26>>}

\* the distance (voxels) from the entry to the target
SampleDepths == {10, 15}

\* the candidate from entry e, depth voxels along d; a zero direction
\* leads nowhere, and its target is taken along the third axis
SampleCandidate(d, e, depth) ==
  IF Dot(d, d) = 0 THEN Traj(d, e, VAdd(e, <<0, 0, depth>>), 1000)
  ELSE Traj(d, e, VAdd(e, VScale(depth \div ISqrt(Dot(d, d)), d)), 1000)

\* a candidate of which checkpoint 72 is the adjusted target itself: 11
\* voxels from start to target, the adjusted target 8 voxels from start
OnTargetCandidate == Traj(<<0, 0, 1>>, <<12, 16, 14>>, <<12, 16, 15>>, 1000)

SampleInputs ==
  {SampleCandidate(d, e, depth) :
     d \in SampleDirections, e \in SampleEntries, depth \in SampleDepths}
  \cup {OnTargetCandidate}

(***************************************************************************)
(* sortTrajectories: per target, np.argsort of the margins (ascending,     *)
(* ties in input order), reversed, and the candidates copied in that order *)
(* into a new array.                                                       *)
(***************************************************************************)
\* float('nan') as a margin: margins are distances and never negative, and
\* the one value below zero stands for the margin that is no number
NaN == 0 - 1

IsNaN(m) == m = NaN

\* the order np.argsort sorts floats by: a NaN comes after every number
NumpyLess(a, b) == ~IsNaN(a) /\ (IsNaN(b) \/ a < b)

\* position (0-based) of candidate i in np.argsort(margin_list); lists of up
\* to 16 elements are sorted by insertion, which keeps ties in input order
ArgsortRank(margin_list, i) ==
  Cardinality({j \in 1..Len(margin_list) :
                 \/ NumpyLess(margin_list[j], margin_list[i])
                 \/ (~NumpyLess(margin_list[i], margin_list[j]) /\ j < i)})

\* the reversal [::-1] left out
IdxListAscending(margin_list) ==
  [r \in 1..Len(margin_list) |->
     CHOOSE i \in 1..Len(margin_list) : ArgsortRank(margin_list, i) = r - 1]

\* np.argsort(margin_list)[::-1], as 1-based positions
IdxList(margin_list) ==
  LET n == Len(margin_list)
      asc == [r \in 1..n |->
                CHOOSE i \in 1..n : ArgsortRank(margin_list, i) = r - 1]
  IN [k \in 1..n |-> asc[n + 1 - k]]

SortTrajectories(all) ==
  [t \in 1..Len(all) |->
     LET margin_list == [c \in 1..Len(all[t]) |-> all[t][c].margin]
         idx_list == IdxList(margin_list)
     IN [k \in 1..Len(all[t]) |-> all[t][idx_list[k]]]]

\* the candidates sorted in place: all_trajectories is the sorted array
SortTrajectoriesInPlace(s) ==
  [s EXCEPT !.all_trajectories = SortTrajectories(s.all_trajectories),
            !.sorted_trajectories = SortTrajectories(s.all_trajectories),
            !.target_i = 0,
            !.trajectory_i = 0]

\* sortTrajectories (lines 495-520) on the fields s of the window: the
\* sorted candidates are copied into arrays made anew (lines 499-501)
SortTrajectoriesOf(s) ==
  [s EXCEPT !.sorted_trajectories = SortTrajectories(s.all_trajectories),
            !.target_i = 0,
            !.trajectory_i = 0]

(***************************************************************************)
(* define_checkpoints                                                      *)
(***************************************************************************)
\* np.sqrt(np.sum([(vox_dims[j] * delta) ** 2 for j in range(3)]))
VoxNorm(delta) ==
  LET sq(j) == (vox_dims[j] * delta[1]) * (vox_dims[j] * delta[1])
             + (vox_dims[j] * delta[2]) * (vox_dims[j] * delta[2])
             + (vox_dims[j] * delta[3]) * (vox_dims[j] * delta[3])
  IN ISqrt(sq(1) + sq(2) + sq(3))

\* current_direction / sqrt(d0^2 + d1^2 + d2^2) * mm, for a non-zero direction
Along(direction, mm) ==
  VDiv(VScale(mm * PosScale, direction), ISqrt(Dot(direction, direction)))

StartOf(tr) == VSub(VScale(PosScale, tr.entry), Along(tr.direction, EntryBackoff))

\* the sampling ended at the adjusted target
StopAtAdjustedTarget(tr) ==
  VSub(VScale(PosScale, tr.target), Along(tr.direction, TargetBackoff))

StopOf(tr) == VScale(PosScale, tr.target)

AdjustedTargetOf(tr) == VSub(StopOf(tr), Along(tr.direction, TargetBackoff))

\* trajectory_vector = stop - start
TrajectoryVector(tr) == VSub(StopOf(tr), StartOf(tr))

\* the step taken as a hundredth of the trajectory vector
CheckpointAtHundredth(tr, i) ==
  VAdd(StartOf(tr), VDiv(VScale(i, TrajectoryVector(tr)), NumCheckpoints))

\* checkpoint = start + trajectory_vector * (i / 99)
CheckpointAt(tr, i) ==
  VAdd(StartOf(tr), VDiv(VScale(i, TrajectoryVector(tr)), NumCheckpoints - 1))

\* the distance negated once the checkpoint lies past the adjusted target
SignedPastNegated(dist2target, dist2start, start2target) ==
  IF dist2start > start2target THEN -dist2target ELSE dist2target

\* the sign given to dist2target (lines 603-607): positive once the
\* checkpoint lies further from start than the adjusted target does
Signed(dist2target, dist2start, start2target) ==
  IF dist2start > start2target THEN dist2target ELSE -dist2target

\* the distance to target left without a sign
Dist2TargetUnsigned(checkpoint, start, target) ==
  VoxNorm(VSub(target, checkpoint))

\* every checkpoint beyond start taken as past the target
Dist2TargetPastStart(checkpoint, start, target) ==
  Signed(VoxNorm(VSub(target, checkpoint)),
         VoxNorm(VSub(start, checkpoint)),
         0)

\* the signed distance to target of a checkpoint (lines 594-607)
Dist2TargetOf(checkpoint, start, target) ==
  Signed(VoxNorm(VSub(target, checkpoint)),
         VoxNorm(VSub(start, checkpoint)),
         VoxNorm(VSub(target, start)))

\* the magnitude measured to the entry point, the sign as it is
Dist2TargetToEntry(tr, i) ==
  Signed(VoxNorm(VSub(VScale(PosScale, tr.entry), CheckpointAt(tr, i))),
         VoxNorm(VSub(StartOf(tr), CheckpointAt(tr, i))),
         VoxNorm(VSub(AdjustedTargetOf(tr), StartOf(tr))))

Dist2TargetAt(tr, i) ==
  Dist2TargetOf(CheckpointAt(tr, i), StartOf(tr), AdjustedTargetOf(tr))

\* int(checkpoint_idx[k]) is an index numpy accepts on every axis
IndexInMap(ix) ==
  \A k \in 1..3 : PyIndexOk(MapShape[k], ix[k])

\* the voxel a (possibly negative) index addresses
WrapIndex(ix) ==
  [k \in 1..3 |-> IF ix[k] < 0 THEN ix[k] + MapShape[k] ELSE ix[k]]

DistanceAt(tr, i) == DistanceMapAt(WrapIndex(RoundVec(CheckpointAt(tr, i))))

\* the least index of bad, NumCheckpoints when there is none
FirstOf(bad) ==
  IF bad = {} THEN NumCheckpoints ELSE CHOOSE i \in bad : \A j \in bad : i <= j

\* the first loop index at which define_checkpoints raises, NumCheckpoints
\* when it completes.  A zero direction makes every coordinate NaN, and
\* int(NaN) raises at index 0.
RaisesAt(tr) ==
  IF Dot(tr.direction, tr.direction) = 0 THEN 0
  ELSE FirstOf({i \in 0..(NumCheckpoints - 1) :
                  ~IndexInMap(RoundVec(CheckpointAt(tr, i)))})

\* the arrays of a loop that ran the indices below stop_at: zeros beyond
FilledUpTo(tr, stop_at) ==
  [raised |-> IF stop_at = NumCheckpoints THEN "none"
              ELSE IF Dot(tr.direction, tr.direction) = 0 THEN "ValueError"
              ELSE "IndexError",
   checkpoints |-> [i \in 1..NumCheckpoints |->
                      IF i - 1 < stop_at THEN CheckpointAt(tr, i - 1) ELSE Zero3],
   dist2targetList |-> [i \in 1..NumCheckpoints |->
                      IF i - 1 < stop_at THEN Dist2TargetAt(tr, i - 1) ELSE 0],
   distances |-> [i \in 1..NumCheckpoints |->
                      IF i - 1 < stop_at THEN DistanceAt(tr, i - 1) ELSE 0]]

\* the arrays define_checkpoints leaves behind, and the exception it raised
DefineCheckpoints(tr) == FilledUpTo(tr, RaisesAt(tr))

\* define_checkpoints of every trajectory the window can select
CheckpointTable ==
  [tr \in {InputTrajectories[t][c] : t \in 1..NumTargets, c \in 1..NumCands}
          \cup {LeavesVolume, ZeroDirection} \cup SampleInputs
     |-> DefineCheckpoints(tr)]

(***************************************************************************)
(* The reconstruction frame of updateTrajectory (lines 638-659).  A vector *)
(* num / sqrt(den2) is the pair of its integer numerator and the square of *)
(* its denominator, with the set nan of the components that are NaN; an    *)
(* aspect ratio sqrt(a / b) is the pair <<a, b>>.                          *)
(***************************************************************************)
RECURSIVE Gcd(_, _)
Gcd(a, b) == IF b = 0 THEN Abs(a) ELSE Gcd(b, a % Abs(b))

\* the one representation of num / sqrt(den2): common factors cancelled
Vec(num, den2) ==
  LET g == Gcd(num[1], Gcd(num[2], num[3]))
  IN IF g > 1 /\ den2 % (g * g) = 0
     THEN [num |-> VDiv(num, g), den2 |-> den2 \div (g * g), nan |-> {}]
     ELSE [num |-> num, den2 |-> den2, nan |-> {}]

\* a vector of which the components nan are NaN and the others are 0
NaNVec(nan) == [num |-> Zero3, den2 |-> 1, nan |-> nan]

\* an aspect ratio that is NaN
NaNRatio == <<0, 0>>

\* the one representation of sqrt(a / b): the fraction in lowest terms
Ratio(a, b) == <<a \div Gcd(a, b), b \div Gcd(a, b)>>

\* the third component of vector1 with its sign turned
Vector1SignTurned(direction) ==
  IF direction[3] = 0
  THEN NaNVec(IF direction[1] = 0 THEN {1, 2, 3} ELSE {3})
  ELSE Vec(<<Abs(direction[3]), 0, direction[1] * Sign(direction[3])>>,
           2 * direction[3] * direction[3] + direction[1] * direction[1])

\* vector1 = (1, 0, -(n0 / n2)) / sqrt(1 + 1 + (n0 / n2)^2), scaled by |d2|.
\* With n2 = 0 the quotient n0 / n2 is infinite, or NaN when n0 = 0 too:
\* (1, 0, inf) / inf is (0, 0, NaN), and (1, 0, NaN) / NaN is NaN throughout
Vector1(direction) ==
  IF direction[3] = 0
  THEN NaNVec(IF direction[1] = 0 THEN {1, 2, 3} ELSE {3})
  ELSE Vec(<<Abs(direction[3]), 0, -(direction[1] * Sign(direction[3]))>>,
           2 * direction[3] * direction[3] + direction[1] * direction[1])

\* np.cross(n, v) for v = num / sqrt(den2); a component is NaN when one of
\* the two components of v it is computed from is
CrossWith(direction, v) ==
  IF v.nan = {}
  THEN Vec(Cross(direction, v.num), Dot(direction, direction) * v.den2)
  ELSE NaNVec({k \in 1..3 : (1..3 \ {k}) \cap v.nan # {}})

\* vector2 = np.cross(n, vector1)
Vector2(direction) == CrossWith(direction, Vector1(direction))

\* sqrt(sum((v[i] * vox_dims[i]) ** 2))
Aspect(v) ==
  IF v.nan # {} THEN NaNRatio ELSE
  Ratio((v.num[1] * vox_dims[1]) * (v.num[1] * vox_dims[1])
        + (v.num[2] * vox_dims[2]) * (v.num[2] * vox_dims[2])
        + (v.num[3] * vox_dims[3]) * (v.num[3] * vox_dims[3]),
        v.den2)

\* a point base + c1 * vector1 + c2 * vector2 of the plane of a slice
PlanePoint(base, c1, c2) == [base |-> base, c1 |-> c1, c2 |-> c2]

\* the slice cut from the checkpoint itself, without the offset
SliceOriginAtCheckpoint(checkpoint, half) == PlanePoint(checkpoint, 0, 0)

\* slice_origin = checkpoint - (max(shape) // 2) * (vector1 + vector2)
\* (lines 669-672)
SliceOrigin(checkpoint, half) == PlanePoint(checkpoint, -half, -half)

\* the point of the volume that affineSlice samples for the position (a, b)
\* of the canvas: origin + a * vector1 + b * vector2
CanvasToVolume(origin, a, b) ==
  PlanePoint(origin.base, origin.c1 + a, origin.c2 + b)

\* the (100, M, M) array of oblique slices: slice k is affineSlice of the
\* scan at origin centers[k] - half * (vector1 + vector2) along the vectors
AffineSlices(scan, shape2, vecs, half, centers) ==
  [data |-> scan, slice_shape |-> shape2, vectors |-> vecs, half |-> half,
   origins |-> [k \in 1..Len(centers) |-> SliceOrigin(centers[k], half)]]

\* trajectory_slices[k]
SliceAt(slices, k) ==
  [data |-> slices.data, slice_shape |-> slices.slice_shape,
   vectors |-> slices.vectors, half |-> slices.half,
   center |-> PyIndex(slices.origins, k).base,
   origin |-> PyIndex(slices.origins, k)]

\* InfiniteLine.setValue: the value is kept inside the bounds
Clamp(v, lo, hi) ==
  LET a == IF v < lo THEN lo ELSE v IN IF a > hi THEN hi ELSE a

(***************************************************************************)
(* The fields of the window as one record, and the handlers as functions   *)
(* from the fields before to the fields after.  The field raised names the *)
(* exception that ended the handler, "none" when it ran to its end.        *)
(***************************************************************************)
Self ==
  [all_trajectories |-> all_trajectories,
   sorted_trajectories |-> sorted_trajectories,
   target_i |-> target_i, trajectory_i |-> trajectory_i,
   checkpoint_i |-> checkpoint_i, data |-> data,
   current_trajectory |-> current_trajectory,
   trajectory_checkpoints |-> trajectory_checkpoints,
   trajectory_dist2targetList |-> trajectory_dist2targetList,
   trajectory_distances |-> trajectory_distances,
   vectors |-> vectors, aspect_x |-> aspect_x, aspect_y |-> aspect_y,
   slice_shape |-> slice_shape, trajectory_slices |-> trajectory_slices,
   current_pos |-> current_pos, current_slice |-> current_slice,
   v_line |-> v_line, margin |-> margin, margin_pix |-> margin_pix,
   h_line |-> h_line, marginSetting |-> marginSetting,
   targetList |-> targetList, trajectoryList |-> trajectoryList,
   scanList |-> scanList, raised |-> "none"]

\* updateProbeView, and with it updateImages (lines 522-548)
UpdateProbeView(s) ==
  [s EXCEPT
     !.current_pos = PyIndex(s.trajectory_checkpoints, s.checkpoint_i),
     !.current_slice = SliceAt(s.trajectory_slices, s.checkpoint_i),
     !.v_line = [s.v_line EXCEPT
                   !.value = Clamp(PyIndex(s.trajectory_dist2targetList,
                                           s.checkpoint_i),
                                   s.v_line.lo, s.v_line.hi)]]

UpdateImages(s) == UpdateProbeView(s)

\* the checkpoint set on every pass, not only on the initial one
CheckpointAfterReset(s, initial_pass, checkpoints) == Len(checkpoints) - 1

\* checkpoint_i after updateTrajectory (lines 680-681)
CheckpointAfter(s, initial_pass, checkpoints) ==
  IF initial_pass THEN Len(checkpoints) - 1 ELSE s.checkpoint_i

\* self.sorted_trajectories[self.target_i][self.trajectory_i]
TrajectoryOf(s) ==
  PyIndex(PyIndex(s.sorted_trajectories, s.target_i), s.trajectory_i)

\* updateTrajectory up to define_checkpoints (lines 623-627)
Sampled(s, tr, cp) ==
  [s EXCEPT !.current_trajectory = tr,
            !.trajectory_checkpoints = cp.checkpoints,
            !.trajectory_dist2targetList = cp.dist2targetList,
            !.trajectory_distances = cp.distances,
            !.raised = cp.raised]

\* the basis vectors computed on the initial pass only
FramedKeepsVectors(s, initial_pass, vector1, vector2, side) ==
  [s EXCEPT
     !.aspect_y = Aspect(vector1),
     !.aspect_x = Aspect(vector2),
     !.slice_shape = <<side, side>>,
     !.vectors = IF initial_pass THEN <<vector1, vector2>> ELSE s.vectors,
     !.trajectory_slices =
         AffineSlices(s.data, <<side, side>>,
                      IF initial_pass THEN <<vector1, vector2>> ELSE s.vectors,
                      side \div 2, s.trajectory_checkpoints),
     !.checkpoint_i = CheckpointAfter(s, initial_pass, s.trajectory_checkpoints),
     !.current_pos =
         PyIndex(s.trajectory_checkpoints,
                 CheckpointAfter(s, initial_pass, s.trajectory_checkpoints))]

\* the frame, the slices and the current position (lines 629-683)
Framed(s, initial_pass, vector1, vector2, side) ==
  [s EXCEPT
     !.aspect_y = Aspect(vector1),
     !.aspect_x = Aspect(vector2),
     !.slice_shape = <<side, side>>,
     !.vectors = <<vector1, vector2>>,
     !.trajectory_slices =
         AffineSlices(s.data, <<side, side>>, <<vector1, vector2>>,
                      side \div 2, s.trajectory_checkpoints),
     !.checkpoint_i = CheckpointAfter(s, initial_pass, s.trajectory_checkpoints),
     !.current_pos =
         PyIndex(s.trajectory_checkpoints,
                 CheckpointAfter(s, initial_pass, s.trajectory_checkpoints))]

\* the plots, the bounds of the vertical line and the images (lines 686-719)
Plotted(s) ==
  UpdateImages(
    [s EXCEPT
       !.v_line = [lo |-> s.trajectory_dist2targetList[1],
                   hi |-> s.trajectory_dist2targetList[NumCheckpoints],
                   value |-> Clamp(s.v_line.value,
                                   s.trajectory_dist2targetList[1],
                                   s.trajectory_dist2targetList[NumCheckpoints])]])

\* updateTrajectory going on whatever define_checkpoints raised
UpdateSampledThrough(s, initial_pass) ==
  IF initial_pass
  THEN Framed(s, initial_pass, Vector1(s.current_trajectory.direction),
              Vector2(s.current_trajectory.direction),
              Max3(ScanShape(s.data)))
  ELSE Plotted(Framed(s, initial_pass,
                      Vector1(s.current_trajectory.direction),
                      Vector2(s.current_trajectory.direction),
                      Max3(ScanShape(s.data))))

\* updateTrajectory once define_checkpoints has ended: it goes on unless an
\* exception left it
UpdateSampled(s, initial_pass) ==
  IF s.raised # "none" THEN s
  ELSE IF initial_pass
       THEN Framed(s, initial_pass, Vector1(s.current_trajectory.direction),
                   Vector2(s.current_trajectory.direction),
                   Max3(ScanShape(s.data)))
       ELSE Plotted(Framed(s, initial_pass,
                           Vector1(s.current_trajectory.direction),
                           Vector2(s.current_trajectory.direction),
                           Max3(ScanShape(s.data))))

\* updateTrajectory(initial_pass) (lines 620-719)
UpdateTrajectory(s, initial_pass) ==
  UpdateSampled(Sampled(s, TrajectoryOf(s), CheckpointTable[TrajectoryOf(s)]),
                initial_pass)

(***************************************************************************)
(* The event handlers.                                                     *)
(***************************************************************************)
\* the test of the lower edge left out
OnEdgeUpperOnly(s, scroll) ==
  scroll > 0 /\ s.checkpoint_i >= Len(s.trajectory_checkpoints) - 1

\* the upper edge taken one checkpoint early
OnEdgeEarly(s, scroll) ==
  \/ (scroll > 0 /\ s.checkpoint_i >= Len(s.trajectory_checkpoints) - 2)
  \/ (scroll < 0 /\ s.checkpoint_i = 0)

\* imageKeyPressEvent for Key_Up (scroll = 1) and Key_Down (scroll = -1):
\* the test for the edges (lines 880-887)
OnEdge(s, scroll) ==
  \/ (scroll > 0 /\ s.checkpoint_i >= Len(s.trajectory_checkpoints) - 1)
  \/ (scroll < 0 /\ s.checkpoint_i = 0)

\* the index wrapped around at the edges
ImageKeyPressEventWraps(s, scroll) ==
  UpdateImages([s EXCEPT
                  !.checkpoint_i =
                     (@ + scroll + Len(s.trajectory_checkpoints))
                       % Len(s.trajectory_checkpoints)])

ImageKeyPressEvent(s, scroll) ==
  UpdateImages([s EXCEPT
                  !.checkpoint_i = IF OnEdge(s, scroll) THEN @ ELSE @ + scroll])

\* the comparison diff <= min_diff: the last of several nearest wins
ScanStepLastWins(list, dist2target, st, checkpoint) ==
  LET actual_dist == list[checkpoint + 1]
      diff == Abs(dist2target - actual_dist)
  IN IF diff <= st[2] THEN <<checkpoint, diff>> ELSE st

\* the difference taken without abs()
ScanStepSigned(list, dist2target, st, checkpoint) ==
  LET actual_dist == list[checkpoint + 1]
      diff == dist2target - actual_dist
  IN IF diff < st[2] THEN <<checkpoint, diff>> ELSE st

\* one pass of the loop of vLineDragged (lines 932-938); st = <<opt_checkpoint_i, min_diff>>
ScanStep(list, dist2target, st, checkpoint) ==
  LET actual_dist == list[checkpoint + 1]
      diff == Abs(dist2target - actual_dist)
  IN IF diff < st[2] THEN <<checkpoint, diff>> ELSE st

\* ten passes of the loop, for the checkpoints 10 * b .. 10 * b + 9
ScanBlock(list, dist2target, st, b) ==
  LET S[i \in 0..10] ==
        IF i = 0 THEN st
        ELSE ScanStep(list, dist2target, S[i - 1], 10 * b + i - 1)
  IN S[10]

\* the loop of vLineDragged over all checkpoints: opt_checkpoint_i
BestFit(list, dist2target) ==
  LET O[b \in 0..(Len(list) \div 10)] ==
        IF b = 0 THEN <<0, MinDiffInit * PosScale>>
        ELSE LET prev == O[b - 1]
             IN IF prev[1] >= 0 THEN ScanBlock(list, dist2target, prev, b - 1)
                ELSE prev
  IN O[Len(list) \div 10][1]

\* the checkpoint taken from the line, the images left as they were
VLineDraggedNoUpdate(s, dist2target) ==
  [s EXCEPT
     !.v_line = [@ EXCEPT !.value = dist2target],
     !.checkpoint_i = BestFit(s.trajectory_dist2targetList, dist2target)]

\* vLineDragged, the line having been dragged to dist2target
VLineDragged(s, dist2target) ==
  UpdateImages([s EXCEPT
                  !.v_line = [@ EXCEPT !.value = dist2target],
                  !.checkpoint_i = BestFit(s.trajectory_dist2targetList,
                                           dist2target)])

\* a text of the margin field: the digits d.dd as a number of hundredths,
\* or a text float() does not accept
Text(hundredths) == [parses |-> TRUE, hundredths |-> hundredths]

NoNumber == [parses |-> FALSE, hundredths |-> 0]

\* f"{margin:.2f}": hundredths, rounded to nearest (half to even)
Format2(m) ==
  LET q == m \div 10
      r == m - q * 10
  IN Text(IF r < 5 THEN q
          ELSE IF r > 5 THEN q + 1
          ELSE IF q % 2 = 0 THEN q ELSE q + 1)

\* the text the field keeps of a text set into it under the input mask
\* '9.99' (line 404): one digit, the separator, two digits. Of "10.00" the
\* mask takes the first digit, writes its separator, takes the second
\* digit, drops the point that fits no digit place and takes the third
MaskedTo999(text) ==
  IF ~text.parses \/ text.hundredths < 10 * 100 THEN text
  ELSE Text(((text.hundredths \div 1000) % 10) * 100
            + ((text.hundredths \div 100) % 10) * 10
            + ((text.hundredths \div 10) % 10))

\* float(margin_str)
ParseMargin(text) == text.hundredths * 10

\* the margin taken from the text, the radius of the circle left as it was
EditMarginKeepsPix(s) ==
  IF ~s.marginSetting.parses THEN s
  ELSE [s EXCEPT
          !.margin = ParseMargin(s.marginSetting),
          !.h_line = Clamp(ParseMargin(s.marginSetting), 0, 10 * MarginScale)]

\* a text that is no number taken as 0
EditMarginZeroOnError(s) ==
  LET m == IF s.marginSetting.parses THEN ParseMargin(s.marginSetting) ELSE 0
  IN [s EXCEPT
        !.margin = m,
        !.margin_pix = <<m, s.aspect_x>>,
        !.h_line = Clamp(m, 0, 10 * MarginScale)]

\* editMargin (lines 967-992); float() raises ValueError on a text that is
\* no number, and the handler returns
EditMargin(s) ==
  IF ~s.marginSetting.parses THEN s
  ELSE [s EXCEPT
          !.margin = ParseMargin(s.marginSetting),
          !.margin_pix = <<ParseMargin(s.marginSetting), s.aspect_x>>,
          !.h_line = Clamp(ParseMargin(s.marginSetting), 0, 10 * MarginScale)]

\* hLineDragged (lines 944-965), the line having been dragged to new_margin;
\* setText fires editMargin when it changes the text
HLineDragged(s, new_margin) ==
  LET set == [s EXCEPT !.h_line = new_margin,
                       !.margin = new_margin,
                       !.margin_pix = <<new_margin, s.aspect_x>>]
  IN IF MaskedTo999(Format2(new_margin)) = s.marginSetting THEN set
     ELSE EditMargin([set EXCEPT
                        !.marginSetting = MaskedTo999(Format2(new_margin))])

\* the row of the list ignored
SelectTrajectoryFirst(s) ==
  UpdateTrajectory([s EXCEPT !.trajectory_i = 0], FALSE)

\* selectTrajectory (lines 795-802)
SelectTrajectory(s) ==
  UpdateTrajectory([s EXCEPT !.trajectory_i = s.trajectoryList], FALSE)

\* updateImages, unless an exception has left the handler before
ThenUpdateImages(s) == IF s.raised # "none" THEN s ELSE UpdateImages(s)

\* the scan changed and the trajectory updated as on the initial pass
SelectScanInitialPass(s) ==
  ThenUpdateImages(UpdateTrajectory([s EXCEPT !.data = s.scanList], TRUE))

\* selectScan (lines 804-817)
SelectScan(s) ==
  ThenUpdateImages(UpdateTrajectory([s EXCEPT !.data = s.scanList], FALSE))

\* selectTarget up to and including trajectoryList.clear(), which makes the
\* current row -1 and fires selectTrajectory (lines 770-775)
SelectTargetClear(s) ==
  SelectTrajectory([s EXCEPT !.target_i = s.targetList,
                             !.trajectory_i = 0,
                             !.trajectoryList = -1])

\* the refill of the list and setCurrentRow(0), which fires selectTrajectory
\* (lines 777-790)
SelectTargetFill(s) ==
  SelectTrajectory([s EXCEPT !.trajectoryList = 0])

\* the closing updateTrajectory of selectTarget (line 793)
SelectTargetUpdate(s) == UpdateTrajectory(s, FALSE)

\* selectTarget while the trajectory list does not exist yet (initSide)
SelectTargetFirst(s) ==
  UpdateTrajectory([s EXCEPT !.target_i = s.targetList, !.trajectory_i = 0],
                   FALSE)

(***************************************************************************)
(* convert_volume_to_opengl (lines 426-494): the greyscale volume with the *)
(* masks laid over it in their colours.  An argument is None or a list;    *)
(* the result names the exception raised, or lists the overlays of the     *)
(* array returned.                                                         *)
(***************************************************************************)
\* the argument left at its default None, and a list passed for it
NoneArg == [none |-> TRUE, items |-> <<>>]

ListArg(items) == [none |-> FALSE, items |-> items]

\* the truth value of an argument: None and the empty list are false
Truthy(x) == ~x.none /\ Len(x.items) > 0

\* a colour by its name, and a colour as an RGB tuple
Named(name) == [name |-> name, rgb |-> <<>>]

Rgb(r, g, b) == [name |-> "tuple", rgb |-> <<r, g, b>>]

\* color == "red" / "green" / "blue", or a tuple of length 3 (lines 467-486)
Supported(color) ==
  \/ color.name \in {"red", "green", "blue"}
  \/ (color.name = "tuple" /\ Len(color.rgb) = 3)

Raised(exception, message) ==
  [raised |-> exception, message |-> message, overlays |-> <<>>]

Returned(overlays) ==
  [raised |-> "none", message |-> "-", overlays |-> overlays]

\* line 444: not (masks and colors) and (len(masks) == len(colors)); the
\* second operand is evaluated only when the first is true, and len(None)
\* raises TypeError
Mismatch(masks, colors) ==
  IF Truthy(masks) /\ Truthy(colors) THEN "none"
  ELSE IF masks.none \/ colors.none THEN "TypeError"
  ELSE IF Len(masks.items) = Len(colors.items) THEN "UserWarning"
  ELSE "none"

\* the loop over the masks from mask_i on (lines 450-491), done being the
\* overlays laid so far; alphas are thousandths
RECURSIVE OverlayFrom(_, _, _, _, _)
OverlayFrom(masks, colors, alphas, mask_i, done) ==
  IF mask_i > Len(masks) THEN Returned(done)
  ELSE IF mask_i > Len(colors) THEN Raised("IndexError", "colors")
  ELSE IF Truthy(alphas) /\ Len(alphas.items) # Len(masks)
    THEN Raised("ValueError", "alphas")
  ELSE IF ~Supported(colors[mask_i]) THEN Raised("ValueError", "colors")
  ELSE OverlayFrom(masks, colors, alphas, mask_i + 1,
         Append(done,
                [mask |-> masks[mask_i], color |-> colors[mask_i],
                 alpha |-> IF Truthy(alphas) THEN 255 * alphas.items[mask_i]
                           ELSE 255 * 1000]))

ConvertVolumeToOpenGL(masks, colors, alphas) ==
  IF ~(Truthy(masks) \/ Truthy(colors)) THEN Returned(<<>>)
  ELSE IF Mismatch(masks, colors) # "none"
    THEN Raised(Mismatch(masks, colors), "masks and colors")
  ELSE OverlayFrom(masks.items, colors.items, alphas, 1, <<>>)

\* the masks of the window
MaskNames == <<"ventricleMask", "vesselMask", "sulcusMask">>

\* the volume of the 3-D view as initSubplots makes it (lines 275-280)
InitVolume ==
  ConvertVolumeToOpenGL(ListArg(<<MaskNames[1], MaskNames[2]>>),
                        ListArg(<<Named("blue"), Rgb(255, 0, 0)>>),
                        ListArg(<<1000, 5>>))

\* no volume converted yet
NoVolume == Returned(<<>>)

(***************************************************************************)
(* segmentation() (src/src/segmentation.py): the wrapper of the            *)
(* segmentation module.  The dict paths is the set of its keys.  The steps *)
(* it calls are seen from their calls: generate_fsl_paths and process_fsl  *)
(* add the FSL paths, the three segmentations make the segmentation        *)
(* folder and paths unless they are there (seg_vessels, lines 271-274 of   *)
(* src/src/seg/vessels.py).                                                *)
(***************************************************************************)
\* the branch of lines 43, 52 and 73 on settings["runModules"][2]
FlagBranchTruthy(flag) == IF flag = 0 THEN "skip" ELSE "run"

FlagBranch(flag) ==
  IF flag = 0 THEN "skip" ELSE IF flag = 1 THEN "run" ELSE "raise"

\* settings["runModules"][2]
RunFlag(s) == s.runModules[3]

\* _, paths = generate_fsl_paths(paths, settings): the expected FSL paths
\* are added (lines 45-50)
GenerateFslPaths(p) == p \cup {"fsl_paths"}

\* paths, settings = process_fsl(paths, settings, verbose) (line 56); its
\* FSL paths are read by seg_vessels (vessels.py, lines 297-298)
ProcessFsl(p) == p \cup {"fsl_paths"}

\* paths, settings = seg_vessels(paths, settings, verbose) (vessels.py,
\* lines 271-274 and 353)
SegVessels(p) == p \cup {"segDir", "seg_paths"}

\* seg_ventricles and seg_sulci: the paths they may return
SegStep(p) == {p, p \cup {"segDir", "seg_paths"}}

\* a call of a step with its arguments and what it returned
Call(step, p, s, v, returned) ==
  [step |-> step, paths |-> p, settings |-> s, verbose |-> v,
   returned |-> returned]

\* log_dict(dict, os.path.join(paths["logsDir"], file))
LogDict(dict, content, file) ==
  [dict |-> dict, content |-> content, file |-> file]

\* no segmentation under way
NotSegmenting ==
  /\ paths = {}
  /\ settings = [runModules |-> <<>>]
  /\ verbose = FALSE
  /\ seg_pc = "off"
  /\ calls = <<>>
  /\ logs = <<>>

(***************************************************************************)
(* Construction (__init__: initData, initSubplots, initSide).              *)
(***************************************************************************)
\* the fields before initData has set them
Unset(all) ==
  [all_trajectories |-> all, sorted_trajectories |-> <<>>,
   target_i |-> 0, trajectory_i |-> 0, checkpoint_i |-> 0, data |-> "T1w",
   current_trajectory |-> Traj(Zero3, Zero3, Zero3, 0),
   trajectory_checkpoints |-> <<>>, trajectory_dist2targetList |-> <<>>,
   trajectory_distances |-> <<>>,
   vectors |-> <<>>, aspect_x |-> <<0, 1>>, aspect_y |-> <<0, 1>>,
   slice_shape |-> <<0, 0>>,
   trajectory_slices |-> AffineSlices("T1w", <<0, 0>>, <<>>, 0, <<>>),
   current_pos |-> Zero3,
   current_slice |-> [data |-> "T1w", slice_shape |-> <<0, 0>>,
                      vectors |-> <<>>, half |-> 0, center |-> Zero3,
                      origin |-> SliceOrigin(Zero3, 0)],
   v_line |-> [lo |-> 0, hi |-> 0, value |-> 0],
   margin |-> 0, margin_pix |-> <<0, <<0, 1>>>>, h_line |-> 0,
   marginSetting |-> NoNumber, targetList |-> -1, trajectoryList |-> -1,
   scanList |-> "", raised |-> "none"]

\* initData with an updateTrajectory that is no initial pass
InitDataLaterPass(all) ==
  UpdateTrajectory(
    SortTrajectoriesOf([Unset(all) EXCEPT !.data = ScanNames[1]]), FALSE)

\* initData: the active scan is T1w, sortTrajectories sets the sorted lists
\* and target_i = trajectory_i = 0, then updateTrajectory(initial_pass=True)
InitData(all) ==
  UpdateTrajectory(
    SortTrajectoriesOf([Unset(all) EXCEPT !.data = ScanNames[1]]), TRUE)

\* initSubplots: the first probe view, the margin and the two lines
InitSubplots(s) ==
  [s EXCEPT
     !.current_pos = s.trajectory_checkpoints[s.checkpoint_i + 1],
     !.current_slice = SliceAt(s.trajectory_slices, s.checkpoint_i),
     !.margin = InitMargin * MarginScale,
     !.margin_pix = <<InitMargin * MarginScale, s.aspect_x>>,
     !.v_line = [lo |-> s.trajectory_dist2targetList[1],
                 hi |-> s.trajectory_dist2targetList[NumCheckpoints],
                 value |-> s.trajectory_dist2targetList[s.checkpoint_i + 1]],
     !.h_line = InitMargin * MarginScale]

\* self.marginSetting.setText(f"{self.margin:.2f}")
SetMarginText(s) == [s EXCEPT !.marginSetting = Format2(s.margin)]

\* initSide: the first row of each list is made current, which fires
\* selectTarget, selectTrajectory and selectScan; the margin text is set
InitSide(s) ==
  SetMarginText(
    SelectScan(
      [SelectTrajectory(
         [SelectTargetFirst([s EXCEPT !.targetList = 0])
            EXCEPT !.trajectoryList = 0])
         EXCEPT !.scanList = ScanNames[1]]))

\* PathSelection(app, paths, all)
Constructed(all) == InitSide(InitSubplots(InitData(all)))

(***************************************************************************)
(* The state machine: one action per user event.                           *)
(***************************************************************************)
\* the fields of s become the state
Commit(s) ==
  /\ all_trajectories' = s.all_trajectories
  /\ sorted_trajectories' = s.sorted_trajectories
  /\ target_i' = s.target_i
  /\ trajectory_i' = s.trajectory_i
  /\ checkpoint_i' = s.checkpoint_i
  /\ data' = s.data
  /\ current_trajectory' = s.current_trajectory
  /\ trajectory_checkpoints' = s.trajectory_checkpoints
  /\ trajectory_dist2targetList' = s.trajectory_dist2targetList
  /\ trajectory_distances' = s.trajectory_distances
  /\ vectors' = s.vectors
  /\ aspect_x' = s.aspect_x
  /\ aspect_y' = s.aspect_y
  /\ slice_shape' = s.slice_shape
  /\ trajectory_slices' = s.trajectory_slices
  /\ current_pos' = s.current_pos
  /\ current_slice' = s.current_slice
  /\ v_line' = s.v_line
  /\ margin' = s.margin
  /\ margin_pix' = s.margin_pix
  /\ h_line' = s.h_line
  /\ marginSetting' = s.marginSetting
  /\ targetList' = s.targetList
  /\ trajectoryList' = s.trajectoryList
  /\ scanList' = s.scanList

\* a handler has returned s.  An exception that leaves a slot is printed and
\* the event loop goes on, or it ends the process, depending on the Qt binding.
Returns(after, op, arg, branch, next_pc) ==
  \E s \in {after} :
    /\ Commit(s)
    /\ last_op' = [op |-> op, arg |-> arg, branch |-> branch,
                   raised |-> s.raised]
    /\ pc' \in IF s.raised = "none" THEN {next_pc} ELSE {next_pc, "aborted"}
    /\ UNCHANGED <<volData, paths, settings, verbose, seg_pc, calls, logs>>

\* the state shows the fields of c
Shows(c) ==
    /\ all_trajectories = c.all_trajectories
    /\ sorted_trajectories = c.sorted_trajectories
    /\ target_i = c.target_i
    /\ trajectory_i = c.trajectory_i
    /\ checkpoint_i = c.checkpoint_i
    /\ data = c.data
    /\ current_trajectory = c.current_trajectory
    /\ trajectory_checkpoints = c.trajectory_checkpoints
    /\ trajectory_dist2targetList = c.trajectory_dist2targetList
    /\ trajectory_distances = c.trajectory_distances
    /\ vectors = c.vectors
    /\ aspect_x = c.aspect_x
    /\ aspect_y = c.aspect_y
    /\ slice_shape = c.slice_shape
    /\ trajectory_slices = c.trajectory_slices
    /\ current_pos = c.current_pos
    /\ current_slice = c.current_slice
    /\ v_line = c.v_line
    /\ margin = c.margin
    /\ margin_pix = c.margin_pix
    /\ h_line = c.h_line
    /\ marginSetting = c.marginSetting
    /\ targetList = c.targetList
    /\ trajectoryList = c.trajectoryList
    /\ scanList = c.scanList

\* the window as constructed from the candidates all, waiting for an event
InitWith(all) ==
  \E c \in {Constructed(all)} :
    /\ Shows(c)
    /\ volData = InitVolume
    /\ NotSegmenting
    /\ pc = "idle"
    /\ last_op = [op |-> "init", arg |-> 0, branch |-> "-", raised |-> "none"]

Init == InitWith(InputTrajectories)

\* the positions the user drags the vertical line to: NumQueries + 1 evenly
\* spread values between the bounds of the line
DragPositions ==
  {v_line.lo + (m * (v_line.hi - v_line.lo)) \div NumQueries : m \in 0..NumQueries}

\* the value the user drags the horizontal line to (thousandths of a mm)
HLineDrags == {1234}

\* Key_Up / Key_Down
KeyPress ==
  /\ pc = "idle"
  /\ \E scroll \in {1, -1} :
       Returns(ImageKeyPressEvent(Self, scroll), "key", scroll,
               IF OnEdge(Self, scroll) THEN "edge" ELSE "moved", "idle")

\* the vertical line of the profile plot is dragged
DragVLine ==
  /\ pc = "idle"
  /\ \E q \in DragPositions :
       Returns(VLineDragged(Self, q), "vline", q, "-", "idle")

\* the horizontal line of the profile plot is dragged
DragHLine ==
  /\ pc = "idle"
  /\ \E m \in HLineDrags :
       Returns(HLineDragged(Self, m), "hline", m, "-", "idle")

\* another row of the trajectory list is made current
ClickTrajectory ==
  /\ pc = "idle"
  /\ \E row \in 0..(Len(PyIndex(sorted_trajectories, target_i)) - 1) :
       /\ row # trajectoryList
       /\ Returns(SelectTrajectory([Self EXCEPT !.trajectoryList = row]),
                  "selectTrajectory", row, "-", "idle")

\* another item of the scan list is made current
ClickScan ==
  /\ pc = "idle"
  /\ \E k \in 1..Len(ScanNames) :
       /\ ScanNames[k] # scanList
       /\ Returns(SelectScan([Self EXCEPT !.scanList = ScanNames[k]]),
                  "selectScan", ScanNames[k], "-", "idle")

\* another row of the target list is made current: selectTarget starts and
\* clears the trajectory list
ClickTarget ==
  /\ pc = "idle"
  /\ \E row \in 0..(Len(sorted_trajectories) - 1) :
       /\ row # targetList
       /\ Returns(SelectTargetClear([Self EXCEPT !.targetList = row]),
                  "selectTarget", row, "cleared", "selectTarget_cleared")

\* selectTarget goes on: the list is refilled and its first row made current
TargetFill ==
  /\ pc = "selectTarget_cleared"
  /\ Returns(SelectTargetFill(Self), "selectTarget", targetList, "filled",
             "selectTarget_filled")

\* selectTarget ends with its own updateTrajectory
TargetUpdate ==
  /\ pc = "selectTarget_filled"
  /\ Returns(SelectTargetUpdate(Self), "selectTarget", targetList, "returned",
             "idle")

Next ==
  \/ KeyPress
  \/ DragVLine
  \/ DragHLine
  \/ ClickTrajectory
  \/ ClickScan
  \/ ClickTarget
  \/ TargetFill
  \/ TargetUpdate

Spec == Init /\ [][Next]_vars

(***************************************************************************)
(* The same window, handed candidates of which some are malformed.         *)
(***************************************************************************)
InitMalformed == InitWith(MalformedTrajectories)

\* the events of the keys and of the three lists
NextMalformed ==
  \/ KeyPress
  \/ ClickTrajectory
  \/ ClickScan
  \/ ClickTarget
  \/ TargetFill
  \/ TargetUpdate

SpecMalformed == InitMalformed /\ [][NextMalformed]_vars

(***************************************************************************)
(* Seeking: the window with any pair (target, trajectory) selected, and    *)
(* the vertical line dragged to each distance of a checkpoint and between  *)
(* each two neighbours.                                                    *)
(***************************************************************************)
\* the window c after the target row t was made current
WithTarget(c, t) ==
  IF t = c.targetList THEN c
  ELSE SelectTargetUpdate(SelectTargetFill(
         SelectTargetClear([c EXCEPT !.targetList = t])))

\* the window c after the trajectory row r was made current
WithTrajectory(c, r) ==
  IF r = c.trajectoryList THEN c
  ELSE SelectTrajectory([c EXCEPT !.trajectoryList = r])

Selected(t, r) ==
  WithTrajectory(WithTarget(Constructed(InputTrajectories), t), r)

InitSeek ==
  \E t \in 0..(NumTargets - 1), r \in 0..(NumCands - 1) :
    \E c \in {Selected(t, r)} :
      /\ Shows(c)
      /\ volData = InitVolume
      /\ NotSegmenting
      /\ pc = "idle"
      /\ last_op = [op |-> "init", arg |-> 0, branch |-> "-", raised |-> "none"]

\* the distance of every checkpoint, and the point half-way to the next
SeekPositions ==
  {trajectory_dist2targetList[k] : k \in 1..NumCheckpoints}
  \cup {(trajectory_dist2targetList[k] + trajectory_dist2targetList[k + 1]) \div 2 :
          k \in 1..(NumCheckpoints - 1)}

\* the vertical line of the profile plot is dragged
SeekVLine ==
  /\ pc = "idle"
  /\ \E q \in SeekPositions :
       Returns(VLineDragged(Self, q), "vline", q, "-", "idle")

NextSeek == SeekVLine

SpecSeek == InitSeek /\ [][NextSeek]_vars

(***************************************************************************)
(* Stepping: on any selection the user presses Key_Up or Key_Down, and     *)
(* presses the same key again or the other one.  A key that is pressed     *)
(* again and again is handled every time: the event loop calls             *)
(* imageKeyPressEvent for every key event (WF on KeyRepeat).               *)
(***************************************************************************)
\* the key of the last key event is pressed again
KeyRepeat ==
  /\ pc = "idle"
  /\ last_op.op = "key"
  /\ \E scroll \in {last_op.arg} :
       Returns(ImageKeyPressEvent(Self, scroll), "key", scroll,
               IF OnEdge(Self, scroll) THEN "edge" ELSE "moved", "idle")

\* the first key is pressed, or the other key than the last
KeyOther ==
  /\ pc = "idle"
  /\ \E scroll \in {1, -1} :
       /\ last_op.op = "key" => scroll # last_op.arg
       /\ Returns(ImageKeyPressEvent(Self, scroll), "key", scroll,
                  IF OnEdge(Self, scroll) THEN "edge" ELSE "moved", "idle")

NextStep ==
  \/ KeyRepeat
  \/ KeyOther

SpecStep == InitSeek /\ [][NextStep]_vars /\ WF_vars(KeyRepeat)

(***************************************************************************)
(* convert_volume_to_opengl on its own: the window under construction      *)
(* calls it with masks, colours and alphas given or left out, of lengths   *)
(* up to MaxOverlays.                                                      *)
(***************************************************************************)
MaxOverlays == 2

SeqsUpTo(S, n) == UNION {[1..k -> S] : k \in 0..n}

MaskArgs ==
  {NoneArg} \cup {ListArg([k \in 1..n |-> MaskNames[k]]) : n \in 0..MaxOverlays}

ColorArgs ==
  {NoneArg}
  \cup {ListArg(c) :
          c \in SeqsUpTo({Named("blue"), Rgb(255, 0, 0), Named("grey")},
                         MaxOverlays)}

AlphaArgs ==
  {NoneArg} \cup {ListArg(a) : a \in SeqsUpTo({1000, 5}, MaxOverlays)}

InitOverlay ==
  /\ Shows(Unset(InputTrajectories))
  /\ volData = NoVolume
  /\ NotSegmenting
  /\ pc = "constructing"
  /\ last_op = [op |-> "init", arg |-> 0, branch |-> "-", raised |-> "none"]

\* convert_volume_to_opengl is called and returns or raises
RunConvertVolume ==
  /\ pc = "constructing"
  /\ \E masks \in MaskArgs, colors \in ColorArgs, alphas \in AlphaArgs :
       \E d \in {ConvertVolumeToOpenGL(masks, colors, alphas)} :
         /\ Commit(Self)
         /\ UNCHANGED <<paths, settings, verbose, seg_pc, calls, logs>>
         /\ volData' = d
         /\ last_op' = [op |-> "convert_volume_to_opengl",
                        arg |-> [masks |-> masks, colors |-> colors,
                                 alphas |-> alphas],
                        branch |-> d.message, raised |-> d.raised]
         /\ pc' = "converted"

NextOverlay == RunConvertVolume

SpecOverlay == InitOverlay /\ [][NextOverlay]_vars

(***************************************************************************)
(* segmentation() on its own, one action per statement that calls a step,  *)
(* raises or logs.  The statements of a function run one after the other,   *)
(* and every step is taken to return (WF).                                  *)
(***************************************************************************)
\* values of settings["runModules"][2]
SegFlags == {0, 1, 2, -1}

\* the paths the earlier modules hand over
SegPaths ==
  {{"logsDir", "tmpDataDir", "nii_paths", "mrreg_paths"},
   {"logsDir", "tmpDataDir", "nii_paths", "mrreg_paths", "segDir"}}

SegSettings ==
  {[runModules |-> <<a, b, f, 0>>] : a \in {0, 1}, b \in {0, 1}, f \in SegFlags}

InitSegmentation ==
  /\ Shows(Unset(InputTrajectories))
  /\ pc = "unmade"
  /\ volData = NoVolume
  /\ last_op = [op |-> "init", arg |-> 0, branch |-> "-", raised |-> "none"]
  /\ paths \in SegPaths
  /\ settings \in SegSettings
  /\ verbose \in BOOLEAN
  /\ seg_pc = "called"
  /\ calls = <<>>
  /\ logs = <<>>

\* a statement of segmentation() leaves the window alone
Window == <<all_trajectories, sorted_trajectories, target_i, trajectory_i,
            checkpoint_i, data, current_trajectory, trajectory_checkpoints,
            trajectory_dist2targetList, trajectory_distances, vectors,
            aspect_x, aspect_y, slice_shape, trajectory_slices, current_pos,
            current_slice, v_line, margin, margin_pix, h_line, marginSetting,
            targetList, trajectoryList, scanList, pc, last_op, volData>>

\* a step is called with the paths and settings at hand and returns p
Calls(step, p, next_pc) ==
  /\ calls' = Append(calls, Call(step, paths, settings, verbose, p))
  /\ paths' = p
  /\ seg_pc' = next_pc
  /\ UNCHANGED <<Window, settings, verbose, logs>>

\* runModules[2] == 0: the module is skipped (lines 43-50)
SkipModule ==
  /\ seg_pc = "called"
  /\ FlagBranch(RunFlag(settings)) = "skip"
  /\ Calls("generate_fsl_paths", GenerateFslPaths(paths), "steps_done")

\* runModules[2] == 1: FSL BET/FAST (lines 52-57)
RunFsl ==
  /\ seg_pc = "called"
  /\ FlagBranch(RunFlag(settings)) = "run"
  /\ Calls("process_fsl", ProcessFsl(paths), "fsl_done")

\* ventricle segmentation (lines 59-61)
RunVentricles ==
  /\ seg_pc = "fsl_done"
  /\ \E p \in SegStep(paths) : Calls("seg_ventricles", p, "ventricles_done")

\* sulcus segmentation (lines 63-65)
RunSulci ==
  /\ seg_pc = "ventricles_done"
  /\ \E p \in SegStep(paths) : Calls("seg_sulci", p, "sulci_done")

\* vessel segmentation (lines 67-71)
RunVessels ==
  /\ seg_pc = "sulci_done"
  /\ Calls("seg_vessels", SegVessels(paths), "steps_done")

\* any other flag: ValueError (lines 73-76)
RaiseValueError ==
  /\ seg_pc = "called"
  /\ FlagBranch(RunFlag(settings)) = "raise"
  /\ seg_pc' = "ValueError"
  /\ UNCHANGED <<Window, paths, settings, verbose, calls, logs>>

\* log_dict(paths, ...) (line 79)
LogPaths ==
  /\ seg_pc = "steps_done"
  /\ logs' = Append(logs, LogDict("paths", paths, "paths.json"))
  /\ seg_pc' = "paths_logged"
  /\ UNCHANGED <<Window, paths, settings, verbose, calls>>

\* log_dict(settings, ...) and return paths, settings (lines 80-82)
LogSettings ==
  /\ seg_pc = "paths_logged"
  /\ logs' = Append(logs, LogDict("settings", settings, "settings.json"))
  /\ seg_pc' = "returned"
  /\ UNCHANGED <<Window, paths, settings, verbose, calls>>

NextSegmentation ==
  \/ SkipModule
  \/ RunFsl
  \/ RunVentricles
  \/ RunSulci
  \/ RunVessels
  \/ RaiseValueError
  \/ LogPaths
  \/ LogSettings

SpecSegmentation ==
  InitSegmentation /\ [][NextSegmentation]_vars /\ WF_vars(NextSegmentation)

(***************************************************************************)
(* The margin: the horizontal line dragged anywhere between its bounds,    *)
(* texts typed into the margin field, and the trajectory changed between.  *)
(***************************************************************************)
\* values between the bounds [0, 10] of the horizontal line (lines 221-225),
\* the bounds among them (thousandths of a mm)
MarginDrags == {0, 4, 1234, 1235, 5000, 9996, 10 * MarginScale}

\* texts the input mask '9.99' lets the user type: d.dd, and the field
\* emptied of its digits
MarginTexts == {Text(0), Text(1), Text(250), Text(999), NoNumber}

\* the horizontal line is dragged to a value between its bounds
DragMargin ==
  /\ pc = "idle"
  /\ \E m \in MarginDrags :
       Returns(HLineDragged(Self, m), "hline", m, "-", "idle")

\* the text of the margin field is edited: textChanged fires editMargin
TypeMargin ==
  /\ pc = "idle"
  /\ \E text \in MarginTexts :
       /\ text # marginSetting
       /\ Returns(EditMargin([Self EXCEPT !.marginSetting = text]),
                  "editMargin", text.hundredths,
                  IF text.parses THEN "parsed" ELSE "ValueError", "idle")

NextMargin ==
  \/ DragMargin
  \/ TypeMargin
  \/ ClickTrajectory

SpecMargin == Init /\ [][NextMargin]_vars

(***************************************************************************)
(* sortTrajectories on its own: the window under construction, handed one  *)
(* target with up to MaxSortLen candidates of any margins.                 *)
(***************************************************************************)
MaxSortLen == 3

\* the margins a candidate may come with (thousandths of a mm)
SortMargins == {1000, 2000, 3000, NaN}

\* the c-th candidate of a list, with margin m
SortCandidate(c, m) == Traj(<<0, 0, 1>>, <<c, 16, 12>>, <<c, 16, 27>>, m)

\* all_trajectories of one target with candidates of the margins ms
SortInput(ms) == << [c \in 1..Len(ms) |-> SortCandidate(c, ms[c])] >>

SortInputs ==
  {SortInput(ms) : ms \in UNION {[1..n -> SortMargins] : n \in 1..MaxSortLen}}

\* __init__ has stored all_trajectories, initData has not sorted them yet
InitSort ==
  \E all \in SortInputs :
    /\ Shows(Unset(all))
    /\ volData = NoVolume
    /\ NotSegmenting
    /\ pc = "constructing"
    /\ last_op = [op |-> "init", arg |-> 0, branch |-> "-", raised |-> "none"]

\* initData calls sortTrajectories
RunSortTrajectories ==
  /\ pc = "constructing"
  /\ Returns(SortTrajectoriesOf(Self), "sortTrajectories", 0, "-", "sorted")

NextSort == RunSortTrajectories

SpecSort == InitSort /\ [][NextSort]_vars

(***************************************************************************)
(* define_checkpoints and the frame on their own: the window under         *)
(* construction, handed one candidate, up to the first updateTrajectory.   *)
(***************************************************************************)
\* initData has sorted the one candidate and has not sampled it yet
InitSample ==
  \E tr \in SampleInputs :
    \E c \in {SortTrajectoriesOf([Unset(<< <<tr>> >>) EXCEPT !.data = ScanNames[1]])} :
      /\ Shows(c)
      /\ volData = NoVolume
      /\ NotSegmenting
      /\ pc = "sorted"
      /\ last_op = [op |-> "sortTrajectories", arg |-> 0, branch |-> "-",
                    raised |-> "none"]

\* initData calls updateTrajectory(initial_pass=True) (line 110)
RunUpdateTrajectory ==
  /\ pc = "sorted"
  /\ Returns(UpdateTrajectory(Self, TRUE), "updateTrajectory", 0, "-",
             "sampled")

NextSample == RunUpdateTrajectory

SpecSample == InitSample /\ [][NextSample]_vars

(***************************************************************************)
(* Properties.                                                             *)
(***************************************************************************)
\* the fields derived from (target_i, trajectory_i): the active trajectory,
\* its checkpoint arrays, the basis and the slices
derived ==
  <<current_trajectory, trajectory_checkpoints, trajectory_dist2targetList,
    trajectory_distances, vectors, trajectory_slices>>

\* selectTarget has returned
TargetSelected == last_op.op = "selectTarget" /\ last_op.branch = "returned"

\* C1: in every state reached by any interleaving of the events (target,
\* trajectory and scan selection, key up/down, dragging either line),
\* checkpoint_i is an index 0..99 of the checkpoint arrays.
C1_CheckpointInRange == checkpoint_i \in 0..(NumCheckpoints - 1)

C1_Witness ==
  /\ last_op.op = "vline"
  /\ checkpoint_i = 0
  /\ target_i = 1
  /\ trajectory_i = 1
  /\ data # ScanNames[1]
  /\ margin # InitMargin * MarginScale

\* C2: a key press at the edge it points to (Key_Up at 99, Key_Down at 0)
\* leaves checkpoint_i as it is; any other key press changes checkpoint_i by
\* exactly +1 or -1; no key press changes another navigation field.
C2_StepCheckpoint ==
  [][last_op'.op = "key" =>
       /\ checkpoint_i' =
            IF \/ (last_op'.arg = 1 /\ checkpoint_i = NumCheckpoints - 1)
               \/ (last_op'.arg = -1 /\ checkpoint_i = 0)
            THEN checkpoint_i
            ELSE checkpoint_i + last_op'.arg
       /\ UNCHANGED <<target_i, trajectory_i, data, margin, derived>>]_vars

C2_Witness ==
  /\ last_op.op = "key"
  /\ last_op.arg = -1
  /\ last_op.branch = "edge"
  /\ checkpoint_i = 0

\* C3: when selectTarget has returned for the row i of the target list,
\* target_i = i, trajectory_i = 0 and the active trajectory is the first
\* entry of the sorted list of target i, a candidate of target i of which no
\* other candidate has a larger margin.
C3_SelectTarget ==
  TargetSelected =>
    /\ target_i = last_op.arg
    /\ target_i \in 0..(Len(all_trajectories) - 1)
    /\ trajectory_i = 0
    /\ current_trajectory = sorted_trajectories[target_i + 1][1]
    /\ \E c \in 1..Len(all_trajectories[target_i + 1]) :
         current_trajectory = all_trajectories[target_i + 1][c]
    /\ \A c \in 1..Len(all_trajectories[target_i + 1]) :
         all_trajectories[target_i + 1][c].margin <= current_trajectory.margin

C3_Witness ==
  /\ TargetSelected
  /\ target_i = 1
  /\ trajectory_i = 0
  /\ \E c \in 1..Len(all_trajectories[target_i + 1]) :
       all_trajectories[target_i + 1][c].margin < current_trajectory.margin

\* C4 as stated: when selectTarget has returned, checkpoint_i is the last
\* index 99 whatever it was before.
C4_ResetToLast == TargetSelected => checkpoint_i = NumCheckpoints - 1

\* C4 as amended: selectTarget leaves checkpoint_i as it was before the call
\* (only the construction of the window sets it to the last index).
C4_CheckpointKept ==
  [][last_op'.op = "selectTarget" => checkpoint_i' = checkpoint_i]_vars

C4_Witness == TargetSelected /\ checkpoint_i < NumCheckpoints - 1

\* C5: selectTrajectory for a row j of the trajectory list sets
\* trajectory_i = j and leaves checkpoint_i, target_i, the margin and the
\* active scan as they were.
C5_SelectTrajectory ==
  [][last_op'.op = "selectTrajectory" =>
       /\ trajectory_i' = last_op'.arg
       /\ UNCHANGED <<checkpoint_i, target_i, margin, data>>]_vars

C5_Witness ==
  /\ last_op.op = "selectTrajectory"
  /\ trajectory_i = NumCands - 1
  /\ checkpoint_i < NumCheckpoints - 1
  /\ target_i = 1
  /\ data # ScanNames[1]
  /\ margin # InitMargin * MarginScale

\* C6: selectTrajectory run for a current row outside the list (the row -1
\* the cleared list reports inside selectTarget) is rejected: trajectory_i
\* keeps the value it had when the list was cleared, which is 0, and the
\* derived fields stay as they were.
C6_OutOfRangeRejected ==
  [][last_op'.branch = "cleared" =>
       /\ trajectory_i' = 0
       /\ UNCHANGED derived]_vars

\* C8: a handler that an exception has left part-way leaves target_i,
\* trajectory_i, the checkpoint arrays, the basis and the slices exactly as
\* they were before it started.
C8_Atomic ==
  [][last_op'.raised # "none" => UNCHANGED <<target_i, trajectory_i, derived>>]_vars

\* C9: a drag of the vertical line to q sets checkpoint_i to an index whose
\* distance to target is as near to q as that of any checkpoint, and to the
\* lowest such index.
C9_NearestLowest ==
  last_op.op = "vline" =>
    \A j \in 0..(NumCheckpoints - 1) :
      LET best == Abs(trajectory_dist2targetList[checkpoint_i + 1] - last_op.arg)
          other == Abs(trajectory_dist2targetList[j + 1] - last_op.arg)
      IN best <= other /\ (best = other => checkpoint_i <= j)

C9_Witness ==
  /\ last_op.op = "vline"
  /\ \E j \in 0..(NumCheckpoints - 1) :
       /\ j # checkpoint_i
       /\ Abs(trajectory_dist2targetList[j + 1] - last_op.arg)
            = Abs(trajectory_dist2targetList[checkpoint_i + 1] - last_op.arg)

\* C10: a drag of the vertical line to the distance to target of checkpoint
\* k sets checkpoint_i = k, for every k in 0..99.
C10_ExactSeek ==
  last_op.op = "vline" =>
    \A k \in 0..(NumCheckpoints - 1) :
      trajectory_dist2targetList[k + 1] = last_op.arg => checkpoint_i = k

C10_Witness ==
  /\ last_op.op = "vline"
  /\ checkpoint_i = 57
  /\ last_op.arg = trajectory_dist2targetList[58]

\* C11: after any change of the margin, margin lies inside the range
\* configured for the way it was changed: after a drag of the horizontal
\* line inside the bounds 0..10 of the line, after an edit of the text
\* inside 0.01..9.99, the range of the validator of the field.
C11_MarginInRange ==
  /\ last_op.op = "hline" => margin \in 0..(10 * MarginScale)
  /\ (last_op.op = "editMargin" /\ last_op.branch = "parsed")
       => margin \in (MarginScale \div 100)..(10 * MarginScale - MarginScale \div 100)

\* C12: when hLineDragged has returned, or editMargin has on a text that is
\* a number, margin_pix is margin / aspect_x, aspect_x being the one of the
\* basis of the trajectory that is active.
C12_MarginPix ==
  (\/ last_op.op = "hline"
   \/ last_op.op = "editMargin" /\ last_op.branch = "parsed")
    => margin_pix = <<margin, aspect_x>>

\* the line was dragged to 1.234 with another trajectory than the first
\* active, and the margin is the 1.23 of the text
C12_Witness ==
  /\ last_op.op = "hline"
  /\ last_op.arg = 1234
  /\ margin = 1230
  /\ trajectory_i = 1
  /\ margin_pix = <<1230, aspect_x>>

\* C13: selectScan makes the scan of the current row of the scan list the
\* active one and leaves target_i, trajectory_i, checkpoint_i and margin as
\* they were; the scans lying on one grid, the checkpoint positions, the
\* distances to the target, the risk distances and the basis vectors after
\* it equal those before it.
C13_SelectScan ==
  [][last_op'.op = "selectScan"
       => /\ data' = last_op'.arg
          /\ UNCHANGED <<target_i, trajectory_i, checkpoint_i, margin,
                         trajectory_checkpoints, trajectory_dist2targetList,
                         trajectory_distances, vectors>>]_vars

\* the CT was selected while the second trajectory of the second target was
\* shown at a checkpoint inside the path, and the slices are cut from the CT
C13_Witness ==
  /\ last_op.op = "selectScan"
  /\ data = "CT"
  /\ trajectory_slices.data = "CT"
  /\ current_slice.data = "CT"
  /\ target_i = 1
  /\ trajectory_i = 1
  /\ checkpoint_i \in 1..(NumCheckpoints - 2)
  /\ margin = 1230

\* selectTrajectory has returned, called for a row the user made current
TrajectorySelected == last_op.op = "selectTrajectory"

\* C14: when selectTarget or selectTrajectory has returned, the active
\* trajectory is sorted_trajectories[target_i][trajectory_i], and the
\* checkpoint arrays, the basis vectors, the aspects and the slices are the
\* ones derived from that trajectory: nothing is left of the one before.
C14_DerivedMatchesSelection ==
  (TargetSelected \/ TrajectorySelected)
    => /\ current_trajectory
            = sorted_trajectories[target_i + 1][trajectory_i + 1]
       /\ trajectory_checkpoints
            = CheckpointTable[current_trajectory].checkpoints
       /\ trajectory_dist2targetList
            = CheckpointTable[current_trajectory].dist2targetList
       /\ trajectory_distances
            = CheckpointTable[current_trajectory].distances
       /\ vectors = <<Vector1(current_trajectory.direction),
                      Vector2(current_trajectory.direction)>>
       /\ aspect_y = Aspect(vectors[1])
       /\ aspect_x = Aspect(vectors[2])
       /\ trajectory_slices
            = AffineSlices(data, slice_shape, vectors, slice_shape[1] \div 2,
                           trajectory_checkpoints)

\* the last trajectory of the second target was selected after another one
\* of a different direction had been active
C14_Witness ==
  /\ TrajectorySelected
  /\ target_i = 1
  /\ trajectory_i = NumCands - 1
  /\ current_trajectory = sorted_trajectories[2][NumCands]
  /\ current_trajectory.direction # sorted_trajectories[2][1].direction
  /\ trajectory_checkpoints[1] = StartOf(current_trajectory)

\* C15: when a key press, a drag of the vertical line, selectTarget,
\* selectTrajectory or selectScan has returned, the slice shown is
\* trajectory_slices[checkpoint_i], current_pos is
\* trajectory_checkpoints[checkpoint_i] and the vertical line of the profile
\* plot stands at trajectory_dist2targetList[checkpoint_i].
C15_ViewFollowsCheckpoint ==
  (\/ last_op.op \in {"key", "vline", "selectScan"}
   \/ TrajectorySelected
   \/ TargetSelected)
    => /\ current_slice = SliceAt(trajectory_slices, checkpoint_i)
       /\ current_pos = trajectory_checkpoints[checkpoint_i + 1]
       /\ v_line.value = trajectory_dist2targetList[checkpoint_i + 1]

\* the vertical line was dragged to a checkpoint inside the path of another
\* trajectory than the first, and stands at the distance of that checkpoint
C15_Witness ==
  /\ last_op.op = "vline"
  /\ checkpoint_i \in 1..(NumCheckpoints - 2)
  /\ trajectory_i = 1
  /\ v_line.value = trajectory_dist2targetList[checkpoint_i + 1]
  /\ current_pos = trajectory_checkpoints[checkpoint_i + 1]
  /\ current_slice.center = current_pos

\* sortTrajectories has returned
Sorted == last_op.op = "sortTrajectories"

\* the number of positions of the list cands that hold the candidate x
Count(cands, x) == Cardinality({k \in 1..Len(cands) : cands[k] = x})

\* C16: for every input of which no margin is NaN, sortTrajectories yields
\* per target a permutation of the candidates handed in, in order of
\* non-increasing margin; a target with one candidate is returned as it is.
C16_SortedPermutation ==
  (Sorted /\ \A t \in 1..Len(all_trajectories) :
               \A c \in 1..Len(all_trajectories[t]) :
                 ~IsNaN(all_trajectories[t][c].margin))
    => /\ Len(sorted_trajectories) = Len(all_trajectories)
       /\ \A t \in 1..Len(all_trajectories) :
            /\ Len(sorted_trajectories[t]) = Len(all_trajectories[t])
            /\ \A c \in 1..Len(all_trajectories[t]) :
                 /\ Count(sorted_trajectories[t], all_trajectories[t][c])
                      = Count(all_trajectories[t], all_trajectories[t][c])
                 /\ Count(all_trajectories[t], sorted_trajectories[t][c])
                      = Count(sorted_trajectories[t], sorted_trajectories[t][c])
            /\ \A k \in 1..(Len(sorted_trajectories[t]) - 1) :
                 sorted_trajectories[t][k].margin
                   >= sorted_trajectories[t][k + 1].margin
            /\ Len(all_trajectories[t]) = 1
                 => sorted_trajectories[t] = all_trajectories[t]

\* three candidates of margins 1, 3, 2 were sorted to 3, 2, 1
C16_Witness ==
  /\ Sorted
  /\ Len(all_trajectories[1]) = 3
  /\ all_trajectories[1][1].margin = 1000
  /\ all_trajectories[1][2].margin = 3000
  /\ all_trajectories[1][3].margin = 2000
  /\ sorted_trajectories[1]
       = <<all_trajectories[1][2], all_trajectories[1][3],
           all_trajectories[1][1]>>

\* the position of the candidate x in the list cands
PositionIn(cands, x) == CHOOSE k \in 1..Len(cands) : cands[k] = x

\* C17: the ranking is stable: of two candidates of one target with equal
\* margins, the one that comes first in the input comes first in the
\* sorted list.
C17_StableRanking ==
  Sorted
    => \A t \in 1..Len(all_trajectories) :
         \A i, j \in 1..Len(all_trajectories[t]) :
           (/\ i < j
            /\ ~IsNaN(all_trajectories[t][i].margin)
            /\ all_trajectories[t][i].margin = all_trajectories[t][j].margin)
             => PositionIn(sorted_trajectories[t], all_trajectories[t][i])
                  < PositionIn(sorted_trajectories[t], all_trajectories[t][j])

\* C18: sortTrajectories leaves all_trajectories as it was handed in; the
\* sorted candidates are another structure.
C18_InputKept ==
  [][last_op'.op = "sortTrajectories"
       => all_trajectories' = all_trajectories]_vars

\* candidates that were not in order of margin have been sorted, and the
\* input still holds them in the order they came in
C18_Witness ==
  /\ Sorted
  /\ Len(all_trajectories[1]) = 3
  /\ all_trajectories[1][1].margin = 2000
  /\ all_trajectories[1][2].margin = 1000
  /\ all_trajectories[1][3].margin = 3000
  /\ sorted_trajectories[1][1] = all_trajectories[1][3]
  /\ sorted_trajectories # all_trajectories

\* C19: a candidate whose margin is NaN is placed after every candidate
\* with a margin that is a number, and the ranking raises nothing.
C19_NaNLast ==
  Sorted
    => /\ last_op.raised = "none"
       /\ \A t \in 1..Len(sorted_trajectories) :
            \A k, l \in 1..Len(sorted_trajectories[t]) :
              (k < l /\ IsNaN(sorted_trajectories[t][k].margin))
                => IsNaN(sorted_trajectories[t][l].margin)

\* C20: define_checkpoints always yields exactly 100 checkpoints; the first
\* is start = entry - 10 * direction / |direction|, checkpoint i is
\* start + (stop - start) * i / 99, stop being the target of the candidate,
\* and so the checkpoints are evenly spaced.  Positions are in 1/PosScale
\* voxel, and the equations are multiplied out.
C20_EvenCheckpoints ==
  /\ Len(trajectory_checkpoints) = 100
  /\ Len(trajectory_dist2targetList) = 100
  /\ Len(trajectory_distances) = 100
  /\ \E norm \in 1..Dot(current_trajectory.direction,
                         current_trajectory.direction) :
       /\ norm * norm = Dot(current_trajectory.direction,
                            current_trajectory.direction)
       /\ \A k \in 1..3 :
            norm * (PosScale * current_trajectory.entry[k]
                    - trajectory_checkpoints[1][k])
              = 10 * PosScale * current_trajectory.direction[k]
  /\ \A i \in 0..99 : \A k \in 1..3 :
       99 * (trajectory_checkpoints[i + 1][k] - trajectory_checkpoints[1][k])
         = i * (PosScale * current_trajectory.target[k]
                - trajectory_checkpoints[1][k])
  /\ \A i \in 1..98 : \A k \in 1..3 :
       trajectory_checkpoints[i + 2][k] - trajectory_checkpoints[i + 1][k]
         = trajectory_checkpoints[i + 1][k] - trajectory_checkpoints[i][k]

\* the oblique candidate from (12, 6, 14) to (12, 12, 22) was selected and
\* sampled from (12, 0, 6), 10 voxels before its entry, to its target
C20_Witness ==
  /\ TrajectorySelected
  /\ current_trajectory.direction = <<0, 3, 4>>
  /\ current_trajectory.entry = <<12, 6, 14>>
  /\ Len(trajectory_checkpoints) = 100
  /\ trajectory_checkpoints[1] = <<12 * PosScale, 0, 6 * PosScale>>
  /\ trajectory_checkpoints[100] = <<12 * PosScale, 12 * PosScale, 22 * PosScale>>
  /\ trajectory_checkpoints[2] # trajectory_checkpoints[1]

\* updateTrajectory has returned from sampling the candidate and framing it
SampleReturned == last_op.op = "updateTrajectory" /\ last_op.raised = "none"

\* C21 as stated: the last checkpoint (index 99) is the adjusted target
\* target' = target - 3 * direction / |direction|.
C21_EndsAtAdjustedTarget ==
  SampleReturned
    => \E norm \in 1..Dot(current_trajectory.direction,
                          current_trajectory.direction) :
         /\ norm * norm = Dot(current_trajectory.direction,
                              current_trajectory.direction)
         /\ \A k \in 1..3 :
              norm * (PosScale * current_trajectory.target[k]
                      - trajectory_checkpoints[100][k])
                = 3 * PosScale * current_trajectory.direction[k]

\* C21, amended: the last checkpoint (index 99) is the target of the
\* candidate itself, and trajectory_vector, 99 times the step between two
\* checkpoints, is target - start; the adjusted target lies 3 before it.
C21_EndsAtTarget ==
  SampleReturned
    => /\ trajectory_checkpoints[100]
            = <<PosScale * current_trajectory.target[1],
                PosScale * current_trajectory.target[2],
                PosScale * current_trajectory.target[3]>>
       /\ \A k \in 1..3 :
            99 * (trajectory_checkpoints[2][k] - trajectory_checkpoints[1][k])
              = PosScale * current_trajectory.target[k]
                - trajectory_checkpoints[1][k]

\* the candidate along the third axis from (12, 16, 14) to (12, 16, 29) was
\* sampled from z = 4 up to z = 29, past the adjusted target at z = 26
C21_Witness ==
  /\ SampleReturned
  /\ current_trajectory.direction = <<0, 0, 1>>
  /\ current_trajectory.entry = <<12, 16, 14>>
  /\ current_trajectory.target = <<12, 16, 29>>
  /\ trajectory_checkpoints[1] = <<12 * PosScale, 16 * PosScale, 4 * PosScale>>
  /\ trajectory_checkpoints[100] = <<12 * PosScale, 16 * PosScale, 29 * PosScale>>
  /\ trajectory_dist2targetList[100] > 0

\* the square of the anisotropic norm of delta: each component scaled by
\* the voxel spacing of its own axis
AnisotropicSq(delta) ==
  (vox_dims[1] * delta[1]) * (vox_dims[1] * delta[1])
  + (vox_dims[2] * delta[2]) * (vox_dims[2] * delta[2])
  + (vox_dims[3] * delta[3]) * (vox_dims[3] * delta[3])

\* C22: the magnitude of the distance-to-target of every checkpoint is the
\* anisotropic norm sqrt(sum over d of (vox_dims[d] * delta[d])^2) of the
\* difference delta between the adjusted target and the checkpoint (to the
\* unit of the stored distance: the stored value is the norm rounded down).
C22_AnisotropicNorm ==
  SampleReturned
    => \A i \in 1..NumCheckpoints :
         /\ Abs(trajectory_dist2targetList[i]) * Abs(trajectory_dist2targetList[i])
              <= AnisotropicSq(VSub(AdjustedTargetOf(current_trajectory),
                                    trajectory_checkpoints[i]))
         /\ AnisotropicSq(VSub(AdjustedTargetOf(current_trajectory),
                               trajectory_checkpoints[i]))
              < (Abs(trajectory_dist2targetList[i]) + 1)
                * (Abs(trajectory_dist2targetList[i]) + 1)

\* checkpoint i (1-based) lies further from start than the adjusted target
\* does, by the norms define_checkpoints compares
PastTarget(i) ==
  VoxNorm(VSub(trajectory_checkpoints[1], trajectory_checkpoints[i]))
    > VoxNorm(VSub(AdjustedTargetOf(current_trajectory),
                   trajectory_checkpoints[1]))

\* the norm define_checkpoints computes for the distance of checkpoint i
\* (1-based) to the adjusted target
NormToTarget(i) ==
  VoxNorm(VSub(AdjustedTargetOf(current_trajectory), trajectory_checkpoints[i]))

\* C23 as stated: the stored distance-to-target of a checkpoint is the
\* negated norm exactly when its distance from start exceeds the distance
\* from start to the adjusted target, and the norm itself otherwise.
C23_NegatedPastTarget ==
  SampleReturned
    => \A i \in 1..NumCheckpoints :
         trajectory_dist2targetList[i]
           = IF PastTarget(i) THEN -NormToTarget(i) ELSE NormToTarget(i)

\* C23, amended: the stored distance-to-target of a checkpoint is the norm
\* itself (>= 0) exactly when its distance from start exceeds the distance
\* from start to the adjusted target, and the negated norm (<= 0) for every
\* checkpoint that is not past the target.
C23_NegatedBeforeTarget ==
  SampleReturned
    => \A i \in 1..NumCheckpoints :
         trajectory_dist2targetList[i]
           = IF PastTarget(i) THEN NormToTarget(i) ELSE -NormToTarget(i)

\* a sampled candidate with a checkpoint before the adjusted target, of
\* negative distance, and one past it, of positive distance
C23_Witness ==
  /\ SampleReturned
  /\ ~PastTarget(1)
  /\ trajectory_dist2targetList[1] < 0
  /\ PastTarget(NumCheckpoints)
  /\ trajectory_dist2targetList[NumCheckpoints] > 0

\* how far checkpoint i (1-based) lies beyond the adjusted target along the
\* direction of the active trajectory: negative before it, positive past it
BeyondTarget(i) ==
  Dot(VSub(trajectory_checkpoints[i], AdjustedTargetOf(current_trajectory)),
      current_trajectory.direction)

\* C24: every checkpoint that has not reached the adjusted target yet (or
\* lies on it) has a distance-to-target <= 0, and every checkpoint past the
\* adjusted target has a distance-to-target > 0.
C24_NegativeBeforeTarget ==
  SampleReturned
    => \A i \in 1..NumCheckpoints :
         /\ BeyondTarget(i) <= 0 => trajectory_dist2targetList[i] <= 0
         /\ BeyondTarget(i) > 0 => trajectory_dist2targetList[i] > 0

\* the oblique candidate from (12, 6, 14) was sampled: its first checkpoint
\* lies before the adjusted target, its last past it
C24_Witness ==
  /\ SampleReturned
  /\ current_trajectory.direction = <<0, 3, 4>>
  /\ current_trajectory.entry = <<12, 6, 14>>
  /\ BeyondTarget(1) < 0
  /\ trajectory_dist2targetList[1] < 0
  /\ BeyondTarget(NumCheckpoints) > 0
  /\ trajectory_dist2targetList[NumCheckpoints] > 0

\* C25: along the 100 checkpoints the magnitude of the distance-to-target
\* does not increase up to the sign flip and does not decrease from it on,
\* and the sign changes at most once.
C25_Monotone ==
  SampleReturned
    => /\ \A i \in 1..(NumCheckpoints - 1) :
            /\ trajectory_dist2targetList[i + 1] <= 0
                 => Abs(trajectory_dist2targetList[i])
                      >= Abs(trajectory_dist2targetList[i + 1])
            /\ trajectory_dist2targetList[i] > 0
                 => Abs(trajectory_dist2targetList[i + 1])
                      >= Abs(trajectory_dist2targetList[i])
       /\ Cardinality({i \in 1..(NumCheckpoints - 1) :
                         (trajectory_dist2targetList[i] > 0)
                           # (trajectory_dist2targetList[i + 1] > 0)}) <= 1

\* a sampled candidate whose distances fall in magnitude from the first
\* checkpoint, change sign once inside the path and rise to the last
C25_Witness ==
  /\ SampleReturned
  /\ current_trajectory.direction = <<3, 0, 4>>
  /\ trajectory_dist2targetList[1] < trajectory_dist2targetList[2]
  /\ trajectory_dist2targetList[2] < 0
  /\ \E i \in 2..(NumCheckpoints - 2) :
       trajectory_dist2targetList[i] <= 0 /\ trajectory_dist2targetList[i + 1] > 0
  /\ trajectory_dist2targetList[NumCheckpoints]
       > trajectory_dist2targetList[NumCheckpoints - 1]

\* the voxel index ix lies inside the distance map on every axis
InVolume(ix) == \A k \in 1..3 : 0 <= ix[k] /\ ix[k] < MapShape[k]

\* C26: if the rounded voxel index of any checkpoint of the trajectory lies
\* outside the distance map on any axis (below 0 or >= the size of the
\* axis), sampling the trajectory ends with an error; no risk distance is
\* read from a voxel the index wraps around to.
C26_OutOfVolumeRaises ==
  (/\ last_op.op = "updateTrajectory"
   /\ Dot(current_trajectory.direction, current_trajectory.direction) # 0
   /\ \E i \in 0..(NumCheckpoints - 1) :
        ~InVolume(RoundVec(CheckpointAt(current_trajectory, i))))
    => last_op.raised # "none"

\* C27: selecting a trajectory whose direction has length zero ends in an
\* error: the handler is left by a ValueError before a checkpoint is stored
\* and before the basis and the slices are computed, which stay those of
\* the trajectory shown before.
C27_ZeroDirectionRaises ==
  [][(/\ last_op'.op \in {"selectTrajectory", "selectTarget"}
      /\ Dot(current_trajectory'.direction, current_trajectory'.direction) = 0)
       => /\ last_op'.raised = "ValueError"
          /\ \A i \in 1..NumCheckpoints : trajectory_checkpoints'[i] = Zero3
          /\ UNCHANGED <<vectors, aspect_x, aspect_y, trajectory_slices>>]_vars

\* the row of the candidate of zero direction was made current: the handler
\* was left by the ValueError, no checkpoint is stored, and the basis is
\* still the one of another direction
C27_Witness ==
  /\ last_op.op = "selectTrajectory"
  /\ last_op.raised = "ValueError"
  /\ current_trajectory = ZeroDirection
  /\ trajectory_checkpoints[1] = Zero3
  /\ trajectory_checkpoints[NumCheckpoints] = Zero3
  /\ vectors # <<>>
  /\ vectors[1].nan = {}

\* the components of the two basis vectors are numbers
FiniteBasis == vectors[1].nan = {} /\ vectors[2].nan = {}

\* C28: for every direction n with n.z # 0 the basis derived from it
\* satisfies vector1 . n = 0, vector2 . n = 0 and vector1 . vector2 = 0
\* (the vectors are num / sqrt(den2), so the products of the numerators
\* with the direction and with each other are 0).
C28_Orthogonal ==
  (SampleReturned /\ current_trajectory.direction[3] # 0)
    => /\ FiniteBasis
       /\ Dot(vectors[1].num, current_trajectory.direction) = 0
       /\ Dot(vectors[2].num, current_trajectory.direction) = 0
       /\ Dot(vectors[1].num, vectors[2].num) = 0

\* the basis of the oblique direction (3, 0, 4): vector1 along (4, 0, -3),
\* vector2 along the second axis
C28_Witness ==
  /\ SampleReturned
  /\ current_trajectory.direction = <<3, 0, 4>>
  /\ vectors[1].num = <<4, 0, -3>>
  /\ vectors[2].num[1] = 0
  /\ vectors[2].num[2] > 0
  /\ vectors[2].num[3] = 0

\* C29: for every direction n with n.z # 0 both basis vectors have unit
\* norm: |vector1|^2 = 1 and |vector2|^2 = 1 (of a vector num / sqrt(den2)
\* the square of the norm is num . num / den2).
C29_UnitNorm ==
  (SampleReturned /\ current_trajectory.direction[3] # 0)
    => /\ FiniteBasis
       /\ Dot(vectors[1].num, vectors[1].num) = vectors[1].den2
       /\ Dot(vectors[2].num, vectors[2].num) = vectors[2].den2

\* C30: for a direction with n.z = 0 (and not of length zero) the basis
\* derived is finite, without an infinite or NaN component, orthogonal to
\* the direction, and nothing is raised.
C30_PivotsOnOtherAxis ==
  (/\ last_op.op = "updateTrajectory"
   /\ current_trajectory.direction[3] = 0
   /\ Dot(current_trajectory.direction, current_trajectory.direction) # 0
   /\ \A i \in 0..(NumCheckpoints - 1) :
        InVolume(RoundVec(CheckpointAt(current_trajectory, i))))
    => /\ last_op.raised = "none"
       /\ FiniteBasis
       /\ Dot(vectors[1].num, current_trajectory.direction) = 0
       /\ Dot(vectors[2].num, current_trajectory.direction) = 0

\* C31: for every trajectory one slice is cut per checkpoint (100 slices),
\* each of size M x M with M the largest dimension of the active scan, at
\* the origin checkpoint - (M // 2) * (vector1 + vector2), so that the
\* position (M // 2, M // 2) of the canvas is the checkpoint.
C31_SlicePerCheckpoint ==
  SampleReturned
    => /\ Len(trajectory_slices.origins) = 100
       /\ slice_shape = <<Max3(ScanShape(data)), Max3(ScanShape(data))>>
       /\ trajectory_slices.slice_shape = slice_shape
       /\ \A k \in 1..100 :
            /\ trajectory_slices.origins[k]
                 = PlanePoint(trajectory_checkpoints[k],
                              -(Max3(ScanShape(data)) \div 2),
                              -(Max3(ScanShape(data)) \div 2))
            /\ CanvasToVolume(trajectory_slices.origins[k],
                              Max3(ScanShape(data)) \div 2,
                              Max3(ScanShape(data)) \div 2)
                 = PlanePoint(trajectory_checkpoints[k], 0, 0)

\* the oblique candidate from (12, 6, 14) was sliced: 40 x 40 pixels, the
\* first slice from 20 steps of either vector before its first checkpoint
C31_Witness ==
  /\ SampleReturned
  /\ current_trajectory.direction = <<0, 3, 4>>
  /\ current_trajectory.entry = <<12, 6, 14>>
  /\ slice_shape = <<40, 40>>
  /\ trajectory_slices.origins[1]
       = PlanePoint(<<12 * PosScale, 0, 6 * PosScale>>, -20, -20)
  /\ trajectory_slices.origins[100].base = trajectory_checkpoints[100]

\* the quotient pix = <<m, b>>, standing for m / sqrt(b[1] / b[2]), has the
\* value of margin / sqrt(a[1] / a[2]): the squares multiplied out, with
\* the common factor of the two margins cancelled
IsQuotient(pix, m, a) ==
  IF pix[1] = 0 \/ m = 0 THEN pix[1] = m
  ELSE (pix[1] \div Gcd(pix[1], m)) * (pix[1] \div Gcd(pix[1], m))
         * pix[2][2] * a[1]
       = (m \div Gcd(pix[1], m)) * (m \div Gcd(pix[1], m))
         * a[2] * pix[2][1]

\* C32: in every state, also after selectTarget or selectTrajectory has
\* changed the active trajectory and with it aspect_x, the radius of the
\* margin circle is margin_pix = margin / aspect_x for the aspect_x of the
\* trajectory that is active.
C32_MarginPixFollowsAspect == IsQuotient(margin_pix, margin, aspect_x)

\* C33: while selectTarget clears and refills the trajectory list, every
\* selectTrajectory the list fires commits a trajectory_i inside
\* 0..len(sorted_trajectories[target_i]) - 1, never -1, and when
\* selectTarget has returned trajectory_i is 0.
C33_NoInvalidIndex ==
  last_op.op = "selectTarget"
    => /\ trajectory_i \in 0..(Len(sorted_trajectories[target_i + 1]) - 1)
       /\ last_op.branch = "returned" => trajectory_i = 0

\* the square of the distance (in voxels / PosScale) of checkpoint i
\* (1-based) from the first checkpoint, start
FromStartSq(i) ==
  Dot(VSub(trajectory_checkpoints[i], trajectory_checkpoints[1]),
      VSub(trajectory_checkpoints[i], trajectory_checkpoints[1]))

\* the square of the distance of the adjusted target from start
StartToTargetSq ==
  Dot(VSub(AdjustedTargetOf(current_trajectory), trajectory_checkpoints[1]),
      VSub(AdjustedTargetOf(current_trajectory), trajectory_checkpoints[1]))

C35_InitialState ==
  last_op.op = "init"
    => /\ target_i = 0
       /\ trajectory_i = 0
       /\ current_trajectory = sorted_trajectories[1][1]
       /\ \E c \in 1..Len(all_trajectories[1]) :
            current_trajectory = all_trajectories[1][c]
       /\ \A c \in 1..Len(all_trajectories[1]) :
            all_trajectories[1][c].margin <= current_trajectory.margin
       /\ checkpoint_i = NumCheckpoints - 1
       /\ margin = InitMargin * MarginScale
       /\ data = "T1w"

\* the window as constructed: the candidate shown is not the first of the
\* input, the sort has moved the highest margin to the front
C35_Witness ==
  /\ last_op.op = "init"
  /\ pc = "idle"
  /\ current_trajectory # all_trajectories[1][1]
  /\ current_trajectory.margin > all_trajectories[1][1].margin
  /\ checkpoint_i = NumCheckpoints - 1
  /\ targetList = 0
  /\ trajectoryList = 0
  /\ scanList = "T1w"

\* C36: when from some point on only Key_Up is pressed, checkpoint_i
\* eventually is 99 and stays; when only Key_Down is pressed, it eventually
\* is 0 and stays; and every key press moves it by one at most and leaves
\* target and trajectory alone, so that all indexes between are passed.
C36_StepsReachEnds ==
  /\ <>[](last_op.op = "key" /\ last_op.arg = 1)
       => <>[](checkpoint_i = NumCheckpoints - 1)
  /\ <>[](last_op.op = "key" /\ last_op.arg = -1)
       => <>[](checkpoint_i = 0)
  /\ [][/\ checkpoint_i' - checkpoint_i \in {-1, 0, 1}
        /\ target_i' = target_i
        /\ trajectory_i' = trajectory_i]_vars

\* Key_Down has brought the view from checkpoint 99 to checkpoint 0 of a
\* trajectory that is not the first, and is pressed again on the edge
C36_Witness ==
  /\ last_op.op = "key"
  /\ last_op.arg = -1
  /\ last_op.branch = "edge"
  /\ checkpoint_i = 0
  /\ target_i = 1
  /\ trajectory_i = 1

\* C37: when hLineDragged and the editMargin that its setText fires have
\* returned, the margin is the dragged value rounded to two decimals, the
\* horizontal line and the margin text show that value, and margin_pix is
\* the margin divided by aspect_x.
C37_DragSettles ==
  (last_op.op = "hline" /\ pc = "idle")
    => /\ marginSetting = Format2(last_op.arg)
       /\ margin = ParseMargin(Format2(last_op.arg))
       /\ h_line = margin
       /\ IsQuotient(margin_pix, margin, aspect_x)

\* C38: editMargin on a text that does not parse as a number leaves the
\* margin, margin_pix (the radius of the margin circle) and the value of
\* the horizontal line as they were, and raises nothing.
C38_UnparsableIgnored ==
  [][(last_op'.op = "editMargin" /\ last_op'.branch = "ValueError")
       => /\ margin' = margin
          /\ margin_pix' = margin_pix
          /\ h_line' = h_line
          /\ last_op'.raised = "none"
          /\ pc' = "idle"]_vars

\* the field emptied after a drag: the margin of the drag is still there
C38_Witness ==
  /\ last_op.op = "editMargin"
  /\ last_op.branch = "ValueError"
  /\ marginSetting = NoNumber
  /\ margin = 1230
  /\ h_line = 1230
  /\ pc = "idle"

\* the call of convert_volume_to_opengl has ended
Converted == last_op.op = "convert_volume_to_opengl"

\* C39: convert_volume_to_opengl raises UserWarning whenever exactly one of
\* masks and colors is given or the two lists differ in length, raises
\* ValueError when alphas are given with another length than masks, and
\* lays masks over the volume only when masks and colors are both given
\* with the same length.
C39_OverlayErrors ==
  Converted
    => /\ (\/ Truthy(last_op.arg.masks) # Truthy(last_op.arg.colors)
           \/ /\ Truthy(last_op.arg.masks)
              /\ Truthy(last_op.arg.colors)
              /\ Len(last_op.arg.masks.items) # Len(last_op.arg.colors.items))
            => volData.raised = "UserWarning"
       /\ (/\ Truthy(last_op.arg.masks)
           /\ Truthy(last_op.arg.colors)
           /\ Len(last_op.arg.masks.items) = Len(last_op.arg.colors.items)
           /\ Truthy(last_op.arg.alphas)
           /\ Len(last_op.arg.alphas.items) # Len(last_op.arg.masks.items))
            => volData.raised = "ValueError"
       /\ volData.overlays # <<>>
            => /\ Truthy(last_op.arg.masks)
               /\ Truthy(last_op.arg.colors)
               /\ Len(last_op.arg.masks.items) = Len(last_op.arg.colors.items)

\* the names of the steps called so far, in order
StepsCalled == [k \in 1..Len(calls) |-> calls[k].step]

\* the steps of a run of the module, in their order
RunOrder == <<"process_fsl", "seg_ventricles", "seg_sulci", "seg_vessels">>

\* the steps are over: segmentation() is logging or has returned
StepsOver == seg_pc \in {"steps_done", "paths_logged", "returned"}

\* every step was handed what the step before it had returned
HandedOn ==
  \A k \in 2..Len(calls) :
    /\ calls[k].paths = calls[k - 1].returned
    /\ calls[k].settings = calls[k - 1].settings

\* the state of segmentation() agrees with the flag of its settings
FollowsFlag ==
  /\ RunFlag(settings) = 0
       => /\ \A k \in 1..Len(calls) : calls[k].step = "generate_fsl_paths"
          /\ Len(calls) <= 1
          /\ StepsOver
               => /\ Len(calls) = 1
                  /\ paths = calls[1].paths \cup {"fsl_paths"}
  /\ RunFlag(settings) = 1
       => /\ Len(calls) <= Len(RunOrder)
          /\ StepsCalled = SubSeq(RunOrder, 1, Len(calls))
          /\ HandedOn
          /\ StepsOver => StepsCalled = RunOrder
  /\ RunFlag(settings) \notin {0, 1}
       => /\ seg_pc \in {"called", "ValueError"}
          /\ calls = <<>>
          /\ logs = <<>>
  /\ logs # <<>>
       => /\ seg_pc \in {"paths_logged", "returned"}
          /\ logs[1] = LogDict("paths", paths, "paths.json")
  /\ seg_pc = "returned"
       => logs = <<LogDict("paths", paths, "paths.json"),
                   LogDict("settings", settings, "settings.json")>>

=============================================================================
